---- MODULE Spec2Model ----
(***************************************************************************)
(* The matching engine of pychecktype (src/pychecktype/__init__.py):       *)
(* check_type / _check_type_inner, the two-phase checker protocol and the  *)
(* built-in list, dict, tuple_ and map_ checkers, as a stack machine.      *)
(* One frame of `stack` is one activation of _check_type_inner; the        *)
(* session tables are the four dictionaries of _recursive_check.           *)
(***************************************************************************)
EXTENDS Integers, Sequences, FiniteSets, TLC

(***************************************************************************)
(* Bounds of the object universe.                                          *)
(***************************************************************************)
\* depth of the nested list descriptors N1 = [int], N2 = [N1], ...
NestDepth == 3
\* longest list of integers R0 = [], R1 = [1], R2 = [1, 1], ...
MaxLen == 2

Nm(prefix, k) == prefix \o ToString(k)

(***************************************************************************)
(* Values.  A value is an object with an identity (its name here, id() in  *)
(* the source).  items are the identities of the elements of a list or a   *)
(* tuple, or of the values of a dict, whose keys are the objects in keys.  *)
(* The engine handles a value through a reference (see Results below).     *)
(***************************************************************************)
VInt == [kind |-> "int", keys |-> <<>>, items |-> <<>>, text |-> ""]
VStr(s) == [kind |-> "str", keys |-> <<>>, items |-> <<>>, text |-> s]
VNone == [kind |-> "none", keys |-> <<>>, items |-> <<>>, text |-> ""]
VBool == [kind |-> "bool", keys |-> <<>>, items |-> <<>>, text |-> ""]
VList(xs) == [kind |-> "list", keys |-> <<>>, items |-> xs, text |-> ""]
VTuple(xs) == [kind |-> "tuple", keys |-> <<>>, items |-> xs, text |-> ""]
VDict(ks, xs) == [kind |-> "dict", keys |-> ks, items |-> xs, text |-> ""]
\* an instance of the user-defined class of the model; d is its __dict__
VObj(d) == [kind |-> "obj", keys |-> <<>>, items |-> <<d>>, text |-> ""]
\* a collections.OrderedDict, the subclass of dict of the model
VODict(ks, xs) == [kind |-> "OrderedDict", keys |-> ks, items |-> xs, text |-> ""]


Values ==
    ( "one"     :> VInt )
 @@ ( "abc"     :> VStr("abc") )
 @@ ( "none"    :> VNone )
 @@ ( "true"    :> VBool )
 @@ ( "ka"      :> VStr("a") )
 @@ ( "kb"      :> VStr("b") )
 @@ ( "a"       :> VList(<<"a">>) )
 @@ ( "my_data" :> VList(<<"abc", "my_data">>) )
 @@ ( "my_obj"  :> VList(<<"my_obj2", "one">>) )
 @@ ( "my_obj2" :> VList(<<"my_obj">>) )
 @@ ( "o1"      :> VList(<<"o1", "one">>) )
 @@ ( "oabc"    :> VList(<<"oabc", "abc">>) )
 @@ ( "pair"    :> VList(<<"o1", "o1">>) )
 @@ ( "tp"      :> VTuple(<<"abc", "one">>) )
 @@ ( "t1"      :> VTuple(<<"one">>) )
 @@ ( "vv"      :> VList(<<"tp", "tp">>) )
 @@ ( "w"       :> VList(<<"R1", "abc">>) )
 @@ ( "d_self"  :> VDict(<<"ka", "kb">>, <<"d_self", "d_self">>) )
 @@ ( "d_ab"    :> VDict(<<"ka", "kb">>, <<"one", "one">>) )
 @@ ( "d_a"     :> VDict(<<"ka">>, <<"one">>) )
 @@ ( "dm"      :> VDict(<<"one">>, <<"dm">>) )
 @@ ( "d1s"     :> VDict(<<"one">>, <<"abc">>) )
 @@ ( "od"      :> VODict(<<"one">>, <<"abc">>) )
 @@ ( "s3"      :> VObj("s3d") )
 @@ ( "s3d"     :> VDict(<<"ka">>, <<"none">>) )
 @@ ( "s2"      :> VObj("s2d") )
 @@ ( "s2d"     :> VDict(<<"ka">>, <<"s3">>) )
 @@ ( "c1"      :> VObj("c1d") )
 @@ ( "c1d"     :> VDict(<<"ka">>, <<"c2">>) )
 @@ ( "c2"      :> VObj("c2d") )
 @@ ( "c2d"     :> VDict(<<"ka">>, <<"c3">>) )
 @@ ( "c3"      :> VObj("c3d") )
 @@ ( "c3d"     :> VDict(<<"ka">>, <<"c1">>) )
 @@ ( "ob"      :> VObj("obd") )
 @@ ( "obd"     :> VDict(<<"kb">>, <<"one">>) )
 @@ ( "oe"      :> VObj("oed") )
 @@ ( "oed"     :> VDict(<<>>, <<>>) )
 @@ ( "d_re"    :> VDict(<<"abc", "kb">>, <<"one", "abc">>) )
 @@ ( "ol"      :> VObj("old") )
 @@ ( "old"     :> VDict(<<"kb">>, <<"lo">>) )
 @@ ( "lo"      :> VList(<<"ol", "abc">>) )
 @@ [ id \in {Nm("R", k) : k \in 0..MaxLen} |->
        VList([j \in 1..(CHOOSE k \in 0..MaxLen : Nm("R", k) = id) |-> "one"]) ]


(***************************************************************************)
(* Type descriptors.  kind "tuple" is a Python tuple of alternatives (the  *)
(* empty one is `()`), "list" and "dict" are the literal forms, "list_",   *)
(* "tuple_" and "map_" are bound CustomizedChecker instances, "unknown" is *)
(* an object that is no type at all (the 1 of check_type(1, 1)).           *)
(* A dict descriptor's keys are (mode, name): mode is the prefix character *)
(* of the key ("!", "?", "~" or "" for a bare key), name the rest.         *)
(* A list_ checker wraps a list descriptor: `of` is that list (self.type_),*)
(* the object its mismatch errors name.                                    *)
(***************************************************************************)
TPrim(k) == [kind |-> k, items |-> <<>>, keys |-> <<>>, strict |-> FALSE, rec |-> FALSE, of |-> ""]
TAlt(ts) == [kind |-> "tuple", items |-> ts, keys |-> <<>>, strict |-> FALSE, rec |-> FALSE, of |-> ""]
TList(ts) == [kind |-> "list", items |-> ts, keys |-> <<>>, strict |-> FALSE, rec |-> FALSE, of |-> ""]
TListChk(ts, strict, of) == [kind |-> "list_", items |-> ts, keys |-> <<>>, strict |-> strict, rec |-> FALSE, of |-> of]
TDict(ks, ts) == [kind |-> "dict", items |-> ts, keys |-> ks, strict |-> FALSE, rec |-> FALSE, of |-> ""]
TTupleChk(ts, rec) == [kind |-> "tuple_", items |-> ts, keys |-> <<>>, strict |-> FALSE, rec |-> rec, of |-> ""]
\* map_(k, v, allowed_type, created_type)
TMapOf(k, v, allowed, created) ==
    [kind |-> "map_", items |-> <<k, v>>, keys |-> <<>>, strict |-> FALSE, rec |-> FALSE,
     of |-> "", allowed |-> allowed, created |-> created]
TMapChk(k, v) == TMapOf(k, v, "dict", "dict")

\* extra(base, ...): hooks is the set of the keyword arguments that are
\* not None.  The hook functions themselves are fixed, see the section on
\* the ExtraChecker below.
TExtra(base, hooks) == [kind |-> "extra", items |-> <<base>>, keys |-> <<>>, strict |-> FALSE,
                        rec |-> FALSE, of |-> "", hooks |-> hooks]

\* class_(object_type, property_check, ...): steps is the set of the
\* optional steps the checker is bound with ("recreate" for the default
\* recreate_object = True, "merge" for the default merger)
TObject(property_check, steps) ==
    [kind |-> "class_", items |-> <<property_check>>, keys |-> <<>>, strict |-> FALSE,
     rec |-> FALSE, of |-> "", hooks |-> steps]

Key(mode, name) == [mode |-> mode, name |-> name]
KeysAB == <<Key("", "a"), Key("", "b")>>

Types ==
    ( "int"     :> TPrim("int") )
 @@ ( "str"     :> TPrim("str") )
 @@ ( "bool"    :> TPrim("bool") )
 @@ ( "object"  :> TPrim("object") )
 @@ ( "listcls" :> TPrim("listcls") )
 @@ ( "None"    :> TPrim("none") )
 @@ ( "NotNull" :> TAlt(<<>>) )
 @@ ( "bad"     :> TPrim("unknown") )
 @@ ( "L"       :> TList(<<>>) )
 @@ ( "Lstr"    :> TList(<<"str">>) )
 @@ ( "Ltwo"    :> TList(<<"int", "str">>) )
 @@ ( "Lstrict" :> TListChk(<<"str">>, TRUE, "Lstr") )
 @@ ( "my_type" :> TList(<<"my_type">>) )
 @@ ( "alt_is"  :> TAlt(<<"int", "Lstr">>) )
 @@ ( "alt_si"  :> TAlt(<<"str", "int">>) )
 @@ ( "alt_sn"  :> TAlt(<<"str", "None">>) )
 @@ ( "alt3"    :> TAlt(<<"str", "int", "object">>) )
 @@ ( "Lalt"    :> TList(<<"alt_is">>) )
 @@ ( "mt229"   :> TList(<<"alt229">>) )
 @@ ( "alt229"  :> TAlt(<<"Lstr", "mt229">>) )
 @@ ( "altdoc"  :> TAlt(<<"my_type", "Laltmi">>) )
 @@ ( "Laltmi"  :> TList(<<"altmi">>) )
 @@ ( "altmi"   :> TAlt(<<"my_type", "int">>) )
 @@ ( "altml"   :> TAlt(<<"my_type", "L">>) )
 @@ ( "mt331"   :> TAlt(<<"str", "L331">>) )
 @@ ( "L331"    :> TList(<<"mt331">>) )
 @@ ( "mt350"   :> TList(<<"D350">>) )
 @@ ( "D350"    :> TDict(KeysAB, <<"mt350", "mt350">>) )
 @@ ( "D237"    :> TDict(KeysAB, <<"D237", "LD237">>) )
 @@ ( "LD237"   :> TList(<<"D237">>) )
 @@ ( "mt371"   :> TList(<<"alt371">>) )
 @@ ( "alt371"  :> TAlt(<<"int", "mt371">>) )
 @@ ( "mt378"   :> TList(<<"alt378">>) )
 @@ ( "alt378"  :> TAlt(<<"N1", "mt378">>) )
 @@ ( "D"       :> TDict(<<>>, <<>>) )
 @@ ( "Db"      :> TDict(<<Key("", "b")>>, <<"int">>) )
 @@ ( "Dopt"    :> TDict(<<Key("!", "a"), Key("?", "b")>>, <<"int", "N1">>) )
 @@ ( "Dre"     :> TDict(<<Key("~", "a")>>, <<"int">>) )
 @@ ( "D1"      :> TDict(<<Key("int", "1")>>, <<"int">>) )
 @@ ( "NL"      :> TList(<<"L">>) )
 @@ ( "D_D"     :> TDict(KeysAB, <<"D", "D">>) )
 @@ ( "Dre2"    :> TDict(<<Key("~", "a"), Key("?", "abc")>>, <<"int", "str">>) )
 @@ ( "Dre3"    :> TDict(<<Key("~", "a"), Key("", "a")>>, <<"str", "int">>) )
 @@ ( "D_N1"    :> TDict(KeysAB, <<"N1", "N1">>) )
 @@ ( "LA"      :> TList(<<"altLA">>) )
 @@ ( "altLA"   :> TAlt(<<"LA", "int">>) )
 @@ ( "D_LA"    :> TDict(KeysAB, <<"LA", "LA">>) )
 @@ ( "alt_ib"  :> TAlt(<<"int", "bad">>) )
 @@ ( "alt_sb"  :> TAlt(<<"str", "bad">>) )
 @@ ( "alt_s2"  :> TAlt(<<"str", "Ltwo">>) )
 @@ ( "Lbad"    :> TList(<<"alt_sb">>) )
 @@ ( "T570"    :> TTupleChk(<<"T570">>, FALSE) )
 @@ ( "T582"    :> TTupleChk(<<"LT582">>, FALSE) )
 @@ ( "LT582"   :> TList(<<"T582">>) )
 @@ ( "T6"      :> TTupleChk(<<"A6">>, FALSE) )
 @@ ( "A6"      :> TAlt(<<"T6", "LT6">>) )
 @@ ( "LT6"     :> TList(<<"T6">>) )
 @@ ( "T588"    :> TTupleChk(<<"T588", "int">>, TRUE) )
 @@ ( "Tsi"     :> TTupleChk(<<"str", "int">>, FALSE) )
 @@ ( "LTsi"    :> TList(<<"Tsi">>) )
 @@ ( "Tli"     :> TTupleChk(<<"N1", "int">>, FALSE) )
 @@ ( "alt_Tli" :> TAlt(<<"Tli", "L">>) )
 @@ ( "T1"      :> TTupleChk(<<"int">>, FALSE) )
 @@ ( "T1orN1"  :> TAlt(<<"T1", "N1">>) )
 @@ ( "M"       :> TMapChk("int", "M") )
 @@ ( "Mis"     :> TMapChk("int", "str") )
 @@ ( "Mcr"     :> TMapOf("int", "str", "dict", "OrderedDict") )
 @@ ( "Mal"     :> TMapOf("int", "str", "OrderedDict", "dict") )
 @@ ( "E0"      :> TExtra("Lstr", {}) )
 @@ ( "Ecb"     :> TExtra("N1", {"check_before"}) )
 @@ ( "Echk"    :> TExtra("alt_is", {"check"}) )
 @@ ( "Ecv"     :> TExtra("str", {"convert_before", "convert"}) )
 @@ ( "Er"      :> TExtra("LEr", {"check_before", "precreate", "check", "convert", "merge"}) )
 @@ ( "LEr"     :> TList(<<"Er">>) )
 @@ ( "Eall"    :> TExtra("alt_is", {"check_before", "precreate", "convert_before", "check",
                                     "convert", "merge"}) )
 @@ ( "Eself"   :> TExtra("Eself", {}) )
 @@ ( "single"  :> TObject("Dsingle", {"recreate", "merge"}) )
 @@ ( "Dsingle" :> TDict(<<Key("", "a")>>, <<"Asingle">>) )
 @@ ( "Asingle" :> TAlt(<<"single", "None">>) )
 @@ ( "single2" :> TObject("Dsingle2", {"merge"}) )
 @@ ( "Dsingle2" :> TDict(<<Key("", "a")>>, <<"Asingle2">>) )
 @@ ( "Asingle2" :> TAlt(<<"single2", "None">>) )
 @@ ( "Dob"     :> TDict(<<Key("?", "b")>>, <<"N1">>) )
 @@ ( "Ofull"   :> TObject("Dob", {"check_before", "recreate", "merge", "check", "modify"}) )
 @@ ( "Oin"     :> TObject("Dob", {"merge"}) )
 @@ ( "Oplain"  :> TObject("D", {"recreate", "merge"}) )
 @@ ( "Ec"      :> TExtra("int", {"convert"}) )
 @@ ( "Dc"      :> TDict(<<Key("?", "b")>>, <<"Ec">>) )
 @@ ( "Oc"      :> TObject("Dc", {"merge"}) )
 @@ ( "TL"      :> TList(<<"aOL">>) )
 @@ ( "aOL"     :> TAlt(<<"OL", "int">>) )
 @@ ( "OL"      :> TObject("DL", {"merge"}) )
 @@ ( "DL"      :> TDict(<<Key("", "b")>>, <<"TL">>) )
 @@ ( "altTL"   :> TAlt(<<"TL", "object">>) )
 @@ [ id \in {Nm("N", k) : k \in 1..NestDepth} |->
        LET k == CHOOSE k \in 1..NestDepth : Nm("N", k) = id
        IN  TList(<<IF k = 1 THEN "int" ELSE Nm("N", k - 1)>>) ]


(***************************************************************************)
(* Results.  A reference is either an object of the input (h = FALSE, v    *)
(* its identity) or an object created by the check (h = TRUE, n its index  *)
(* in heap).  Errors are objects too: an error is its index in errs.       *)
(***************************************************************************)
VRef(id) == [h |-> FALSE, n |-> 0, v |-> id]
HRef(n) == [h |-> TRUE, n |-> n, v |-> ""]
NoRef == [h |-> FALSE, n |-> 0, v |-> ""]

Obj(kind) == [kind |-> kind, keys |-> <<>>, items |-> <<>>]

TypeMismatchException(v, t, info) == [kind |-> "TypeMismatch", v |-> v, t |-> t, info |-> info]
InvalidTypeException(t, info) == [kind |-> "InvalidType", v |-> NoRef, t |-> t, info |-> info]
\* a TypeError raised by the standard library (re.search on a key that is no str)
TypeError(info) == [kind |-> "TypeError", v |-> NoRef, t |-> "", info |-> info]
\* an AttributeError raised by the interpreter (k.startswith on a key that is no str)
AttributeError(info) == [kind |-> "AttributeError", v |-> NoRef, t |-> "", info |-> info]

Upd(f, k, x) == [q \in DOMAIN f \cup {k} |-> IF q = k THEN x ELSE f[q]]
Del(f, k) == [q \in DOMAIN f \ {k} |-> f[q]]

VARIABLES
    value, type_,       \* the arguments of the top-level check_type call
    input,              \* the objects of the value's graph, as they are now
    stack,              \* activations of _check_type_inner, innermost last
    current_check,      \* in-progress table: pair -> shell (shared by all sessions)
    failed_check,       \* failed table: pair -> error (shared by all sessions)
    sess,               \* the (succeded_check, list_loop) parts of the live
                        \* _recursive_check tuples, outermost first
    heap,               \* objects created by the check
    errs,               \* exception objects created by the check
    ret,                \* what the activation that just ended returned or raised
    ev,                 \* the step just taken (history)
    hist                \* what has happened in this call (history)

vars == <<value, type_, input, stack, current_check, failed_check, sess, heap, errs, ret, ev, hist>>

(***************************************************************************)
(* Reading an object through a reference: its class (kind), the elements   *)
(* of a list or tuple or the values of a dict (items), the keys of a dict  *)
(* (keys), the characters of a str (text).                                 *)
(***************************************************************************)
KindOf(r) == IF r.h THEN heap[r.n].kind ELSE input[r.v].kind
ItemsOf(r) == IF r.h THEN heap[r.n].items ELSE input[r.v].items
KeysOf(r) == IF r.h THEN heap[r.n].keys ELSE input[r.v].keys
TextOf(r) == IF r.h THEN "" ELSE input[r.v].text

\* the objects of the value's graph when check_type is called
Original ==
    [id \in DOMAIN Values |->
        [kind |-> Values[id].kind, text |-> Values[id].text,
         keys |-> [j \in 1..Len(Values[id].keys) |-> VRef(Values[id].keys[j])],
         items |-> [j \in 1..Len(Values[id].items) |-> VRef(Values[id].items[j])]]]

(***************************************************************************)
(* Primitive rules: lines 1183-1213.                                       *)
(***************************************************************************)
IsPrimitive(t) == Types[t].kind \in {"none", "int", "str", "bool", "object", "listcls"}
    \/ (Types[t].kind = "tuple" /\ Types[t].items = <<>>)

\* the int rule written as a plain isinstance test, which accepts a bool
PrimitiveMatchesIsinstance(v, t) ==
    LET vk == KindOf(v)
        tk == Types[t].kind
    IN  CASE tk = "none"    -> vk = "none"
          [] tk = "tuple"   -> vk # "none"
          [] tk = "int"     -> vk \in {"int", "bool"}
          [] tk = "str"     -> vk = "str"
          [] tk = "bool"    -> vk = "bool"
          [] tk = "object"  -> TRUE
          [] tk = "listcls" -> vk = "list"
          [] OTHER          -> FALSE

PrimitiveMatches(v, t) ==
    LET vk == KindOf(v)
        tk == Types[t].kind
    IN  CASE tk = "none"    -> vk = "none"
          [] tk = "tuple"   -> vk # "none"
          [] tk = "int"     -> vk # "bool" /\ vk = "int"
          [] tk = "str"     -> vk = "str"
          [] tk = "bool"    -> vk = "bool"
          [] tk = "object"  -> TRUE
          [] tk = "listcls" -> vk = "list"
          [] OTHER          -> FALSE

IsAlternation(t) == Types[t].kind = "tuple" /\ Types[t].items # <<>>
IsChecker(t) == Types[t].kind \in {"list", "dict", "list_", "tuple_", "map_", "extra", "class_"}

(***************************************************************************)
(* The built-in checkers.                                                  *)
(***************************************************************************)
\* ListChecker.bind, lines 424-426, as called by line 1229
ListBindInvalid(t) == Types[t].kind = "list" /\ Len(Types[t].items) > 1

\* a checker that takes a list for a scalar and wraps it once more
IsSeqTupleOnly(v) == KindOf(v) = "tuple"

\* isinstance(value, (list, tuple))
IsSeq(v) == KindOf(v) \in {"list", "tuple"}

(***************************************************************************)
(* ExtraChecker.  The hooks a descriptor of the model is bound with:       *)
(*   check_before   = lambda x: isinstance(x, (list, tuple))               *)
(*   precreate      = lambda x: []                                         *)
(*   convert_before = lambda x: x[0] if isinstance(x, (list, tuple))       *)
(*                                      and len(x) > 0 else x              *)
(*   check          = lambda r: isinstance(r, list)                        *)
(*   convert        = lambda r: (r,)                                       *)
(*   merge          = lambda c, r: c.append(r)                             *)
(***************************************************************************)
Has(t, hook) == Types[t].kind \in {"extra", "class_"} /\ hook \in Types[t].hooks
CheckBeforeHook(v) == KindOf(v) \in {"list", "tuple"}
ConvertBeforeHook(v) ==
    IF KindOf(v) \in {"list", "tuple"} /\ ItemsOf(v) # <<>> THEN ItemsOf(v)[1] ELSE v
CheckHook(r) == KindOf(r) = "list"
ConvertHook(r) == [kind |-> "tuple", keys |-> <<>>, items |-> <<r>>]
MergeHook(o, r) == [o EXCEPT !.items = Append(@, r)]

Called(hook, arg) == [h |-> hook, a |-> arg]

\* a pre_check_type that creates the shell before it asks check_before
ExtraBeforeHooksShellFirst(v, t) ==
    (IF Has(t, "precreate") THEN <<Called("precreate", v)>> ELSE <<>>)
    \o (IF Has(t, "check_before") THEN <<Called("check_before", v)>> ELSE <<>>)

\* lines 832-840: the hooks pre_check_type calls, in order
ExtraBeforeHooks(v, t) ==
    (IF Has(t, "check_before") THEN <<Called("check_before", v)>> ELSE <<>>)
    \o (IF Has(t, "precreate") /\ (Has(t, "check_before") => CheckBeforeHook(v))
        THEN <<Called("precreate", v)>> ELSE <<>>)

\* lines 843-846: the hooks final_check_type calls up to the recursion
ExtraRecurseHooks(v, t) ==
    (IF Has(t, "convert_before") THEN <<Called("convert_before", v)>> ELSE <<>>)
    \o <<Called("recurse", IF Has(t, "convert_before") THEN ConvertBeforeHook(v) ELSE v)>>

\* lines 847-857: the hooks final_check_type calls on the result r of the
\* recursion; c is what convert returns (r itself without convert)
ExtraAfterHooks(t, r, c) ==
    (IF Has(t, "check") THEN <<Called("check", r)>> ELSE <<>>)
    \o (IF Has(t, "check") /\ ~CheckHook(r) THEN <<>>
        ELSE (IF Has(t, "convert") THEN <<Called("convert", r)>> ELSE <<>>)
             \o (IF Has(t, "merge") THEN <<Called("merge", c)>> ELSE <<>>))

(***************************************************************************)
(* ObjectChecker.  The functions a descriptor of the model is bound with:  *)
(*   check_before = lambda x: len(x.__dict__) > 0                          *)
(*   check        = lambda r: 'b' in r.__dict__                            *)
(*   modify       = lambda r: setattr(r, 'abc', None)                      *)
(*   merge        = default_object_merger                                  *)
(***************************************************************************)
DictOf(o) == ItemsOf(o)[1]
ObjectCheckBefore(v) == KeysOf(DictOf(v)) # <<>>
ObjectCheck(d) == \E j \in 1..Len(d.keys) : d.keys[j] = VRef("kb")

\* d[k] = x
PutItem(d, k, x) ==
    IF \E j \in 1..Len(d.keys) : d.keys[j] = k
    THEN [d EXCEPT !.items[CHOOSE j \in 1..Len(d.keys) : d.keys[j] = k] = x]
    ELSE [d EXCEPT !.keys = Append(@, k), !.items = Append(@, x)]

\* d.update(new_dict), lines 867-869
RECURSIVE DictUpdate(_, _, _)
DictUpdate(d, ks, xs) ==
    IF ks = <<>> THEN d ELSE DictUpdate(PutItem(d, Head(ks), Head(xs)), Tail(ks), Tail(xs))

ObjectModify(d) == PutItem(d, VRef("abc"), VRef("none"))

\* a pre_check_type that asks check_before before it looks at the class
ObjectBeforeStepsGateFirst(v, t) ==
    (IF Has(t, "check_before") THEN <<Called("check_before", v)>> ELSE <<>>)
    \o <<Called("class", v)>>
    \o (IF KindOf(v) = "obj" /\ Has(t, "recreate") THEN <<Called("recreate", v)>> ELSE <<>>)

\* lines 1037-1047: the steps pre_check_type takes, in order
ObjectBeforeSteps(v, t) ==
    <<Called("class", v)>>
    \o (IF KindOf(v) = "obj" /\ Has(t, "check_before")
        THEN <<Called("check_before", v)>> ELSE <<>>)
    \o (IF KindOf(v) = "obj" /\ (Has(t, "check_before") => ObjectCheckBefore(v))
           /\ Has(t, "recreate")
        THEN <<Called("recreate", v)>> ELSE <<>>)

\* lines 1051-1059: the steps final_check_type takes on the result d of
\* the property check; gate is what check returns
ObjectAfterSteps(t, shell, d, gate) ==
    (IF Has(t, "merge") THEN <<Called("merge", d)>> ELSE <<>>)
    \o (IF Has(t, "check") THEN <<Called("check", shell)>> ELSE <<>>)
    \o (IF Has(t, "modify") /\ (Has(t, "check") => gate)
        THEN <<Called("modify", shell)>> ELSE <<>>)

\* isinstance(v, cls) for the mapping classes dict and OrderedDict
IsInstance(v, cls) == KindOf(v) = cls \/ (cls = "dict" /\ KindOf(v) = "OrderedDict")

\* the calls pre_check_type of the checker of t makes
BeforeSteps(v, t) ==
    IF Types[t].kind = "class_" THEN ObjectBeforeSteps(v, t) ELSE ExtraBeforeHooks(v, t)

\* a list checker that wraps a single value in strict mode too
PreCheckLenient(v, t) ==
    LET tk == Types[t].kind
    IN  CASE tk \in {"list", "list_"} -> IF IsSeq(v) THEN "list" ELSE "none"
          [] tk = "dict" -> IF IsInstance(v, "dict") THEN "dict" ELSE "fail"
          [] tk = "tuple_" ->
                IF ~IsSeq(v) THEN "fail"
                ELSE IF Len(ItemsOf(v)) # Len(Types[t].items) THEN "fail"
                ELSE IF Types[t].rec THEN "list" ELSE "none"
          [] tk = "map_" -> IF IsInstance(v, Types[t].allowed) THEN "dict" ELSE "fail"
          [] tk = "extra" ->
                IF Has(t, "check_before") /\ ~CheckBeforeHook(v) THEN "fail"
                ELSE IF Has(t, "precreate") THEN "list" ELSE "none"
          [] tk = "class_" ->
                IF KindOf(v) # "obj" THEN "fail"
                ELSE IF Has(t, "check_before") /\ ~ObjectCheckBefore(v) THEN "fail"
                ELSE IF Has(t, "recreate") THEN "obj" ELSE "self"

\* pre_check_type of the checker of t: "fail", "none" (no shell) or the
\* kind of the empty shell it creates
PreCheck(v, t) ==
    LET tk == Types[t].kind
    IN  CASE tk \in {"list", "list_"} ->
                IF IsSeq(v) THEN "list"
                ELSE IF Types[t].strict THEN "fail" ELSE "none"
          [] tk = "dict" ->
                IF IsInstance(v, "dict") THEN "dict" ELSE "fail"
          [] tk = "tuple_" ->
                IF ~IsSeq(v) THEN "fail"
                ELSE IF Len(ItemsOf(v)) # Len(Types[t].items) THEN "fail"
                ELSE IF Types[t].rec THEN "list" ELSE "none"
          [] tk = "map_" ->
                IF IsInstance(v, Types[t].allowed) THEN "dict" ELSE "fail"
          [] tk = "extra" ->
                IF Has(t, "check_before") /\ ~CheckBeforeHook(v) THEN "fail"
                ELSE IF Has(t, "precreate") THEN "list" ELSE "none"
          [] tk = "class_" ->
                IF KindOf(v) # "obj" THEN "fail"
                ELSE IF Has(t, "check_before") /\ ~ObjectCheckBefore(v) THEN "fail"
                ELSE IF Has(t, "recreate") THEN "obj" ELSE "self"

PreCheckInfo(v, t) ==
    LET tk == Types[t].kind
    IN  CASE tk \in {"list", "list_"} ->
                "strict mode disables auto-convert-to-list for single value"
          [] tk = "tuple_" /\ IsSeq(v) -> "length mismatch"
          [] tk = "extra" -> "check_before returns False"
          [] tk = "class_" ->
                IF KindOf(v) # "obj" THEN "class type mismatch"
                ELSE "check_before returns False"
          [] OTHER -> "allowed types are"

\* DictChecker.final_check_type, lines 503-520
\* a key of the descriptor that is no str (mode "int": the key is the int
\* named): line 512 calls k.startswith on every key of the descriptor
NonStrKey(t) ==
    /\ Types[t].kind = "dict"
    /\ \E j \in 1..Len(Types[t].keys) : Types[t].keys[j].mode = "int"

RequiredKeys(t) == {k \in 1..Len(Types[t].keys) : Types[t].keys[k].mode \in {"", "!"}}
OptionalKeys(t) == {k \in 1..Len(Types[t].keys) : Types[t].keys[k].mode = "?"}

HasKey(v, name) ==
    \E j \in 1..Len(KeysOf(v)) :
        KindOf(KeysOf(v)[j]) = "str" /\ TextOf(KeysOf(v)[j]) = name

MissingKeys(v, t) == {k \in RequiredKeys(t) : ~HasKey(v, Types[t].keys[k].name)}

\* the declared type of the actual key object k: optional_keys after
\* optional_keys.update(required_keys), lines 520-524; "" when there is none
DeclaredType(k, t) ==
    LET hit(S) == {j \in S : KindOf(k) = "str" /\ Types[t].keys[j].name = TextOf(k)}
    IN  IF hit(RequiredKeys(t)) # {}
        THEN Types[t].items[CHOOSE j \in hit(RequiredKeys(t)) : TRUE]
        ELSE IF hit(OptionalKeys(t)) # {}
        THEN Types[t].items[CHOOSE j \in hit(OptionalKeys(t)) : TRUE]
        ELSE ""

\* line 527: re.search(rk, k) for a pattern without metacharacters
Search(pattern, text) ==
    \E i \in 1..(Len(text) - Len(pattern) + 1) :
        SubSeq(text, i, i + Len(pattern) - 1) = pattern

\* lines 513-514
RegexpKeys(t) == {k \in 1..Len(Types[t].keys) : Types[t].keys[k].mode = "~"}

\* lines 526-529: the type of the first pattern that the key object k (a
\* str) matches; "" when there is none
PatternType(k, t) ==
    LET hit == {j \in RegexpKeys(t) : Search(Types[t].keys[j].name, TextOf(k))}
    IN  IF hit = {} THEN ""
        ELSE Types[t].items[CHOOSE j \in hit : \A i \in hit : j <= i]

Kid(call, role, key, cv, ct) == [call |-> call, role |-> role, key |-> key, cv |-> cv, ct |-> ct]

\* DictChecker.final_check_type, lines 521-531, for the item k: x of the
\* value: d is the descriptor declared for the key k ("" if none), p the
\* descriptor of the first pattern that matches k ("" if none)
RecordStep(t, k, x, d, p) ==
    IF d # "" THEN Kid(TRUE, "elem", k, x, d)
    ELSE IF RegexpKeys(t) = {} THEN Kid(FALSE, "elem", k, x, "")
    ELSE IF KindOf(k) # "str" THEN Kid(FALSE, "typeerror", k, x, "")
    ELSE Kid(p # "", "elem", k, x, p)

\* The recursive_check_type calls final_check_type makes, in order (call =
\* FALSE: the element is copied into the result without a check).
FinalSteps(v, t, shell) ==
    LET tk == Types[t].kind
        xs == ItemsOf(v)
        ts == Types[t].items
    IN  CASE tk \in {"list", "list_"} ->
                IF ts = <<>>
                THEN IF shell = NoRef THEN <<>>
                     ELSE [j \in 1..Len(xs) |-> Kid(FALSE, "elem", NoRef, xs[j], "")]
                ELSE IF shell = NoRef THEN <<Kid(TRUE, "elem", NoRef, v, ts[1])>>
                     ELSE [j \in 1..Len(xs) |-> Kid(TRUE, "elem", NoRef, xs[j], ts[1])]
          [] tk = "dict" ->
                [j \in 1..Len(xs) |->
                    RecordStep(t, KeysOf(v)[j], xs[j],
                               IF Types[t].keys = <<>> THEN ""
                               ELSE DeclaredType(KeysOf(v)[j], t),
                               IF KindOf(KeysOf(v)[j]) = "str"
                               THEN PatternType(KeysOf(v)[j], t) ELSE "")]
          [] tk = "tuple_" ->
                [j \in 1..Len(xs) |-> Kid(TRUE, "elem", NoRef, xs[j], ts[j])]
          [] tk = "map_" ->
                [j \in 1..(2 * Len(xs)) |->
                    IF j % 2 = 1
                    THEN Kid(TRUE, "key", NoRef, KeysOf(v)[(j + 1) \div 2], ts[1])
                    ELSE Kid(TRUE, "val", NoRef, xs[j \div 2], ts[2])]
          [] tk = "class_" -> <<Kid(TRUE, "props", NoRef, DictOf(v), ts[1])>>
          [] tk = "extra" ->
                <<Kid(TRUE, "base", NoRef,
                      IF Has(t, "convert_before") THEN ConvertBeforeHook(v) ELSE v, ts[1])>>

\* what final_check_type does with the result r of step kid: the shell
\* object o after it (list.extend / current_result[k] = r / dict.update)
Fill(o, kid, key, r) ==
    IF o.kind = "dict"
    THEN [o EXCEPT !.keys = Append(@, key), !.items = Append(@, r)]
    ELSE [o EXCEPT !.items = Append(@, r)]

\* a tuple_ checker that returns its slots in a list
BuildList(v, t, acc) ==
    [kind |-> "list", keys |-> <<>>,
     items |-> IF Types[t].kind # "tuple_" /\ Types[t].items = <<>> THEN <<v>> ELSE acc]

\* the object a checker without shell returns: lines 447, 458, 641
Build(v, t, acc) ==
    IF Types[t].kind = "tuple_"
    THEN [kind |-> "tuple", keys |-> <<>>, items |-> acc]
    ELSE [kind |-> "list", keys |-> <<>>,
          items |-> IF Types[t].items = <<>> THEN <<v>> ELSE acc]

(***************************************************************************)
(* Session bookkeeping of _check_type_inner and _customized_check.         *)
(***************************************************************************)
\* line 1129 and lines 1170-1171
NewSession(succ) == [succ |-> succ, loop |-> {}]

\* lines 1179-1180: succeded_check.clear(); succeded_check.update(snapshot)
MergeBack(outer, snapshot) == snapshot

\* a session that never remembers a success
RecordNothing(cur, succ, p, r) == succ

\* lines 1244-1247: the result is stored only for a pair that is in progress
RecordSuccess(cur, succ, p, r) == IF p \in DOMAIN cur THEN Upd(succ, p, r) ELSE succ

\* a session that never remembers a failure
RecordFailureNowhere(failed, p, e) == failed

\* line 1238
RecordFailure(failed, p, e) == Upd(failed, p, e)

\* a lookup handing out element [1] of the stored tuple, the input value
InProgressValue(shell, v) == v

\* line 1167 and line 1147: what the in-progress table holds for a pair
\* and hands to a nested lookup of it: element [0] of the stored tuple
InProgressEntry(shell, v) == shell

\* a lookup that does not consult the in-progress table
LookupWithoutCurrent(succ, failed, cur, p) ==
    IF p \in DOMAIN succ THEN "succeeded"
    ELSE IF p \in DOMAIN failed THEN "failed"
    ELSE "miss"

\* lines 1134-1147: where the lookup of pair p finds its answer
Lookup(succ, failed, cur, p) ==
    IF p \in DOMAIN succ THEN "succeeded"
    ELSE IF p \in DOMAIN failed THEN "failed"
    ELSE IF p \in DOMAIN cur THEN "current"
    ELSE "miss"

\* An activation: its arguments, the session it was given (s), where it
\* stands (pc, i), the shell and results so far of its checker, whether it
\* put its pair under the loop guard, and three history fields: the
\* succeeded table as _customized_check found it (base), the outcomes
\* of the alternatives tried so far (log) and the elements final_check_type
\* has handled so far, each with what was put into the result (kids), and
\* the hooks of an ExtraChecker called so far (hooks).
Frame(v, t, s) == [v |-> v, t |-> t, s |-> s, pc |-> "enter", i |-> 1,
                   shell |-> NoRef, guard |-> FALSE, acc |-> <<>>,
                   base |-> <<>>, log |-> <<>>, kids |-> <<>>, hooks |-> <<>>]

Top == stack[Len(stack)]
Pop == SubSeq(stack, 1, Len(stack) - 1)
PairOf(f) == <<f.v, f.t>>
Ok(r) == [st |-> "ok", r |-> r, e |-> 0]
Err(e) == [st |-> "err", r |-> NoRef, e |-> e]
NoRet == [st |-> "none", r |-> NoRef, e |-> 0]
Ev(op, f, r, e) == [op |-> op, v |-> f.v, t |-> f.t, depth |-> Len(stack), r |-> r, e |-> e,
                    log |-> f.log, kids |-> f.kids, hooks |-> f.hooks, trace |-> ev.trace,
                    shell |-> f.shell]
\* ev after the activation on top has called the hooks `called`: trace is
\* the list of all hook calls of the top-level call
Logged(e, called) ==
    [e EXCEPT !.hooks = @ \o called,
              !.trace = @ \o [j \in 1..Len(called) |-> <<e.t, called[j].h>>]]
Handled(kid, r) == [call |-> kid.call, role |-> kid.role, key |-> kid.key,
                    cv |-> kid.cv, ct |-> kid.ct, r |-> r]
Tried(t, out, r, e) == [t |-> t, out |-> out, r |-> r, e |-> e]

Done == stack = <<>>

\* nothing has happened yet; first is the result of the first call once the
\* caller has passed it to a second call, before is how the first call ended
\* once the caller has made the same call again, call is the call of a
\* function decorated with checked that check_type is called from: the
\* function f, the place pc in its wrapper _f, the index k of the parameter
\* the loop is at, the arguments as they were passed (orig), call_args
\* (args), the objects f was called with (got) and how often (calls), every
\* check_type call made and how it ended (checks), what f gave back (given)
\* and how _f ended (out); single says that the call in progress is one of
\* the single-file engine
NoHistory ==
    [returned |-> {}, stale |-> {}, made |-> {}, handed |-> {}, ended |-> {},
     aborted |-> {}, dropped |-> {}, cut |-> FALSE, raised |-> <<>>, first |-> NoRef,
     before |-> [st |-> "none", kind |-> "", t |-> ""], single |-> FALSE,
     call |-> [f |-> "", pc |-> "", k |-> 0, orig |-> <<>>, args |-> <<>>, got |-> <<>>,
               calls |-> 0, other |-> FALSE, checks |-> <<>>, given |-> NoRef, out |-> NoRet]]

(***************************************************************************)
(* Initial state: check_type(value, type_) has just called                 *)
(* _check_type_inner(value, type_), which created the session (line 1129). *)
(***************************************************************************)
Init ==
    /\ value \in DOMAIN Values
    /\ type_ \in DOMAIN Types
    /\ input = Original
    /\ stack = <<Frame(VRef(value), type_, 1)>>
    /\ current_check = <<>>
    /\ failed_check = <<>>
    /\ sess = <<NewSession(<<>>)>>
    /\ heap = <<>>
    /\ errs = <<>>
    /\ ret = NoRet
    /\ ev = [op |-> "call", v |-> VRef(value), t |-> type_, depth |-> 1, r |-> NoRef, e |-> 0,
             log |-> <<>>, kids |-> <<>>, hooks |-> <<>>, trace |-> <<>>, shell |-> NoRef]
    /\ hist = NoHistory

\* the activation on top has just been entered
Entered == stack # <<>> /\ ret.st = "none" /\ Top.pc = "enter"
Found == Lookup(sess[Top.s].succ, failed_check, current_check, PairOf(Top))
Miss == Entered /\ Found = "miss"

\* the object a mismatch of checker t names as its type
ErrType(t) == IF Types[t].kind = "list_" THEN Types[t].of ELSE t

(***************************************************************************)
(* The two ways an activation ends after the lookup missed.                *)
(***************************************************************************)
\* lines 1242-1248: the else clause of the try statement
ReturnWith(r, ss, hp, inp) ==
    /\ sess' = [ss EXCEPT ![Top.s].succ = RecordSuccess(current_check, @, PairOf(Top), r)]
    /\ current_check' = Del(current_check, PairOf(Top))
    /\ heap' = hp
    /\ stack' = Pop
    /\ ret' = Ok(r)
    /\ hist' = [hist EXCEPT !.returned = @ \cup {PairOf(Top)},
                            !.made = @ \cup {<<Top.v, Top.t, r>>},
                            !.ended = IF Top.shell # NoRef
                                      THEN @ \cup {<<Top.v, Top.t, r>>} ELSE @]
    /\ input' = inp
    /\ UNCHANGED <<value, type_, failed_check, errs>>

ReturnBut(r, ss, hp) == ReturnWith(r, ss, hp, input)

Return(op, r, ss, hp) == ev' = Ev(op, Top, r, 0) /\ ReturnBut(r, ss, hp)

\* an except clause that stores the failure and leaves the pair in progress
RaiseWithInProgress(op, e, es, ss, called, hp, inp) ==
    /\ failed_check' = RecordFailure(failed_check, PairOf(Top), e)
    /\ current_check' = current_check
    /\ errs' = es
    /\ sess' = ss
    /\ stack' = Pop
    /\ ret' = Err(e)
    /\ ev' = Logged(Ev(op, Top, NoRef, e), called)
    /\ hist' = [hist EXCEPT
                  !.aborted = IF Top.shell # NoRef THEN @ \cup {Top.shell} ELSE @,
                  !.dropped = IF Top.shell # NoRef
                              THEN @ \cup (DOMAIN sess[Top.s + 1].succ \ DOMAIN sess[Top.s].succ)
                              ELSE @,
                  !.cut = @ \/ op = "loop_guard",
                  !.raised = Upd(@, PairOf(Top), e)]
    /\ heap' = hp /\ input' = inp
    /\ UNCHANGED <<value, type_>>

\* lines 1236-1241: the except clause of the try statement
RaiseWith(op, e, es, ss, called, hp, inp) ==
    /\ failed_check' = RecordFailure(failed_check, PairOf(Top), e)
    /\ current_check' = Del(current_check, PairOf(Top))
    /\ errs' = es
    /\ sess' = ss
    /\ stack' = Pop
    /\ ret' = Err(e)
    /\ ev' = Logged(Ev(op, Top, NoRef, e), called)
    /\ hist' = [hist EXCEPT
                  !.aborted = IF Top.shell # NoRef THEN @ \cup {Top.shell} ELSE @,
                  !.dropped = IF Top.shell # NoRef
                              THEN @ \cup (DOMAIN sess[Top.s + 1].succ \ DOMAIN sess[Top.s].succ)
                              ELSE @,
                  !.cut = @ \/ op = "loop_guard",
                  !.raised = Upd(@, PairOf(Top), e)]
    /\ heap' = hp /\ input' = inp
    /\ UNCHANGED <<value, type_>>

RaiseLog(op, e, es, ss, called) == RaiseWith(op, e, es, ss, called, heap, input)

Raise(op, e, es, ss) == RaiseLog(op, e, es, ss, <<>>)

RaiseNew(op, exc) == Raise(op, Len(errs) + 1, Append(errs, exc), sess)

(***************************************************************************)
(* Lookup: lines 1133-1147.                                                *)
(***************************************************************************)
HitSucceeded ==
    /\ Entered /\ Found = "succeeded"
    /\ stack' = Pop
    /\ ret' = Ok(sess[Top.s].succ[PairOf(Top)])
    /\ ev' = Ev("hit_succeeded", Top, sess[Top.s].succ[PairOf(Top)], 0)
    /\ hist' = [hist EXCEPT !.returned = @ \cup {PairOf(Top)},
                            !.made = @ \cup {<<Top.v, Top.t, sess[Top.s].succ[PairOf(Top)]>>}]
    /\ UNCHANGED <<value, type_, input, current_check, failed_check, sess, heap, errs>>

HitFailed ==
    /\ Entered /\ Found = "failed"
    /\ stack' = Pop
    /\ ret' = Err(failed_check[PairOf(Top)])
    /\ ev' = Ev("hit_failed", Top, NoRef, failed_check[PairOf(Top)])
    /\ hist' = [hist EXCEPT !.stale =
                    IF PairOf(Top) \in hist.returned THEN @ \cup {PairOf(Top)} ELSE @]
    /\ UNCHANGED <<value, type_, input, current_check, failed_check, sess, heap, errs>>

HitCurrent ==
    /\ Entered /\ Found = "current"
    /\ stack' = Pop
    /\ ret' = Ok(current_check[PairOf(Top)])
    /\ ev' = Ev("hit_current", Top, current_check[PairOf(Top)], 0)
    /\ hist' = [hist EXCEPT !.returned = @ \cup {PairOf(Top)},
                            !.made = @ \cup {<<Top.v, Top.t, current_check[PairOf(Top)]>>},
                            !.handed = @ \cup {<<Top.v, Top.t, current_check[PairOf(Top)]>>},
                            !.cut = TRUE]
    /\ UNCHANGED <<value, type_, input, current_check, failed_check, sess, heap, errs>>

(***************************************************************************)
(* Primitive descriptors: lines 1183-1213.                                 *)
(***************************************************************************)
CheckPrimitive ==
    /\ Miss /\ IsPrimitive(Top.t)
    /\ IF PrimitiveMatches(Top.v, Top.t)
       THEN Return("primitive", Top.v, sess, heap)
       ELSE RaiseNew("primitive", TypeMismatchException(Top.v, Top.t, ""))

\* line 1235
Unrecognized ==
    /\ Miss /\ Types[Top.t].kind = "unknown"
    /\ RaiseNew("unrecognized", InvalidTypeException(Top.t, "Unrecognized type"))

(***************************************************************************)
(* Alternation: lines 1214-1227.                                           *)
(***************************************************************************)
\* an alternation walked from its last alternative to its first
AltSubtypeReversed(t, i) == Types[t].items[Len(Types[t].items) + 1 - i]

\* line 1215: the alternative tried in round i of `for subtype in type_`
AltSubtype(t, i) == Types[t].items[i]

\* an alternation that reports the last alternative instead of itself
AltFailureOfLast(v, t) ==
    TypeMismatchException(v, Types[t].items[Len(Types[t].items)], "")

\* line 1227: the error of an alternation none of whose alternatives matched
AltFailure(v, t) == TypeMismatchException(v, t, "")

AltEnter ==
    /\ Miss /\ IsAlternation(Top.t)
    /\ stack' = [stack EXCEPT ![Len(stack)].pc = "alt"]
    /\ ev' = Ev("alt_enter", Top, NoRef, 0)
    /\ UNCHANGED <<value, type_, input, current_check, failed_check, sess, heap, errs, ret, hist>>

AltTry ==
    /\ stack # <<>> /\ ret.st = "none" /\ Top.pc = "alt"
    /\ Top.i <= Len(Types[Top.t].items)
    /\ stack' = Append(stack, Frame(Top.v, AltSubtype(Top.t, Top.i), Top.s))
    /\ ev' = Ev("alt_try", Top, NoRef, 0)
    /\ UNCHANGED <<value, type_, input, current_check, failed_check, sess, heap, errs, ret, hist>>

AltExhausted ==
    /\ stack # <<>> /\ ret.st = "none" /\ Top.pc = "alt"
    /\ Top.i > Len(Types[Top.t].items)
    /\ RaiseNew("alt_exhausted", AltFailure(Top.v, Top.t))

\* a tuple branch whose except clause catches every exception
AltAfterCatchAll(kind) == IF kind = "ok" THEN "break" ELSE "continue"

\* what the tuple branch does when the check of alternative i ends
AltAfter(kind) ==
    CASE kind = "ok" -> "break"
      [] kind = "TypeMismatch" -> "continue"
      [] OTHER -> "propagate"

AltChildOk ==
    /\ stack # <<>> /\ ret.st = "ok" /\ Top.pc = "alt"
    /\ AltAfter("ok") = "break"
    /\ ev' = [Ev("alt_ok", Top, ret.r, 0) EXCEPT
                !.log = Append(@, Tried(AltSubtype(Top.t, Top.i), "ok", ret.r, 0))]
    /\ ReturnBut(ret.r, sess, heap)

AltChildMismatch ==
    /\ stack # <<>> /\ ret.st = "err" /\ Top.pc = "alt"
    /\ AltAfter(errs[ret.e].kind) = "continue"
    /\ stack' = [stack EXCEPT ![Len(stack)].i = @ + 1,
                              ![Len(stack)].log =
                                  Append(@, Tried(AltSubtype(Top.t, Top.i), errs[ret.e].kind,
                                                  NoRef, ret.e))]
    /\ ret' = NoRet
    /\ ev' = Ev("alt_continue", Top, NoRef, ret.e)
    /\ UNCHANGED <<value, type_, input, current_check, failed_check, sess, heap, errs, hist>>

AltChildError ==
    /\ stack # <<>> /\ ret.st = "err" /\ Top.pc = "alt"
    /\ AltAfter(errs[ret.e].kind) = "propagate"
    /\ Raise("alt_error", ret.e, errs, sess)

(***************************************************************************)
(* Composite descriptors: lines 1228-1233 and _customized_check,           *)
(* lines 1149-1181.                                                        *)
(***************************************************************************)
Composite == Miss /\ IsChecker(Top.t)

\* line 1229: ListChecker(type_) raises in bind
ListInvalid ==
    /\ Composite /\ ListBindInvalid(Top.t)
    /\ RaiseNew("list_invalid",
                InvalidTypeException(Top.t, "list must contain 0 or 1 valid inner type"))

\* lines 1150-1151
LoopGuard ==
    /\ Composite /\ ~ListBindInvalid(Top.t)
    /\ PairOf(Top) \in sess[Top.s].loop
    /\ RaiseNew("loop_guard", TypeMismatchException(Top.v, Top.t, ""))

\* line 1152, pre_check_type raises
PreCheckFails ==
    /\ Composite /\ ~ListBindInvalid(Top.t)
    /\ PairOf(Top) \notin sess[Top.s].loop
    /\ PreCheck(Top.v, Top.t) = "fail"
    /\ RaiseLog("pre_check_fails", Len(errs) + 1,
                Append(errs, TypeMismatchException(Top.v, ErrType(Top.t),
                                                   PreCheckInfo(Top.v, Top.t))),
                sess, BeforeSteps(Top.v, Top.t))

\* lines 1153-1155: no shell, the pair is put under the loop guard
PreCheckNone ==
    /\ Composite /\ ~ListBindInvalid(Top.t)
    /\ PairOf(Top) \notin sess[Top.s].loop
    /\ PreCheck(Top.v, Top.t) = "none"
    /\ sess' = [sess EXCEPT ![Top.s].loop = @ \cup {PairOf(Top)}]
    /\ stack' = [stack EXCEPT ![Len(stack)].pc = "final", ![Len(stack)].guard = TRUE,
                              ![Len(stack)].base = sess[Top.s].succ,
                              ![Len(stack)].hooks = BeforeSteps(Top.v, Top.t)]
    /\ ev' = Logged(Ev("pre_check_none", Top, NoRef, 0), BeforeSteps(Top.v, Top.t))
    /\ UNCHANGED <<value, type_, input, current_check, failed_check, heap, errs, ret, hist>>

\* lines 1166-1171: the shell is registered and the succeeded table copied
PreCheckShell ==
    /\ Composite /\ ~ListBindInvalid(Top.t)
    /\ PairOf(Top) \notin sess[Top.s].loop
    /\ PreCheck(Top.v, Top.t) \in {"list", "dict"}
    /\ heap' = Append(heap, Obj(PreCheck(Top.v, Top.t)))
    /\ current_check' = Upd(current_check, PairOf(Top),
                             InProgressEntry(HRef(Len(heap) + 1), Top.v))
    /\ sess' = Append(SubSeq(sess, 1, Top.s), NewSession(sess[Top.s].succ))
    /\ stack' = [stack EXCEPT ![Len(stack)].pc = "final",
                              ![Len(stack)].shell = HRef(Len(heap) + 1),
                              ![Len(stack)].base = sess[Top.s].succ,
                              ![Len(stack)].hooks = BeforeSteps(Top.v, Top.t)]
    /\ ev' = Logged(Ev("pre_check_shell", Top, HRef(Len(heap) + 1), 0),
                    BeforeSteps(Top.v, Top.t))
    /\ UNCHANGED <<value, type_, input, failed_check, errs, ret, hist>>

(***************************************************************************)
(* The second phase, final_check_type, and how _customized_check ends.     *)
(***************************************************************************)
InFinal == stack # <<>> /\ Top.pc = "final" /\ ~NonStrKey(Top.t)
Steps == FinalSteps(Top.v, Top.t, Top.shell)
Missing == IF Types[Top.t].kind = "dict" /\ Types[Top.t].keys # <<>>
           THEN MissingKeys(Top.v, Top.t) ELSE {}

\* the session the recursive_check_type closure of frame f passes on:
\* _new_recursive_check (line 1176) or _recursive_check (line 1162)
ChildSession(f) == IF f.shell # NoRef THEN f.s + 1 ELSE f.s

\* a failed second phase whose snapshot is merged all the same
RollbackMerging(ss, f) ==
    IF f.shell # NoRef
    THEN [SubSeq(ss, 1, f.s) EXCEPT ![f.s].succ = ss[f.s + 1].succ]
    ELSE [ss EXCEPT ![f.s].loop = @ \ {PairOf(f)}]

\* the session tables after the second phase of frame f raised: the
\* snapshot is dropped (the lines 1179-1180 are not reached), the loop
\* guard removed (finally, line 1165)
Rollback(ss, f) ==
    IF f.shell # NoRef THEN SubSeq(ss, 1, f.s)
    ELSE [ss EXCEPT ![f.s].loop = @ \ {PairOf(f)}]

\* a second phase without a shell that leaves its pair under the loop guard
CommitGuarded(ss, f) ==
    IF f.shell # NoRef
    THEN [SubSeq(ss, 1, f.s) EXCEPT ![f.s].succ = MergeBack(@, ss[f.s + 1].succ)]
    ELSE ss

\* the session tables after the second phase of frame f returned
Commit(ss, f) ==
    IF f.shell # NoRef
    THEN [SubSeq(ss, 1, f.s) EXCEPT ![f.s].succ = MergeBack(@, ss[f.s + 1].succ)]
    ELSE [ss EXCEPT ![f.s].loop = @ \ {PairOf(f)}]

\* lines 516-519
FinalMissingKey ==
    /\ InFinal /\ ret.st = "none" /\ Missing # {}
    /\ LET k == CHOOSE k \in Missing : \A j \in Missing : k <= j
       IN  Raise("missing_key", Len(errs) + 1,
                 Append(errs, TypeMismatchException(Top.v, Top.t, Types[Top.t].keys[k].name)),
                 Rollback(sess, Top))

FinalRecurse ==
    /\ InFinal /\ ret.st = "none" /\ Missing = {}
    /\ \E steps \in {Steps} :
         /\ Top.i <= Len(steps) /\ steps[Top.i].call
         /\ \E called \in {IF Types[Top.t].kind = "extra"
                            THEN ExtraRecurseHooks(Top.v, Top.t)
                            ELSE IF Types[Top.t].kind = "class_"
                            THEN <<Called("props", DictOf(Top.v))>> ELSE <<>>} :
              /\ stack' = Append([stack EXCEPT ![Len(stack)].hooks = @ \o called],
                                 Frame(steps[Top.i].cv, steps[Top.i].ct, ChildSession(Top)))
              /\ ev' = Logged(Ev("recurse", Top, NoRef, 0), called)
    /\ UNCHANGED <<value, type_, input, current_check, failed_check, sess, heap, errs, ret, hist>>

\* an element that is copied unchecked: lines 449, 501, 531
FinalCopy ==
    /\ InFinal /\ ret.st = "none" /\ Missing = {}
    /\ \E steps \in {Steps} :
         /\ Top.i <= Len(steps) /\ ~steps[Top.i].call /\ steps[Top.i].role # "typeerror"
         /\ heap' = [heap EXCEPT ![Top.shell.n] =
                         Fill(@, steps[Top.i], steps[Top.i].key, steps[Top.i].cv)]
         /\ stack' = [stack EXCEPT ![Len(stack)].i = @ + 1,
                                   ![Len(stack)].kids =
                                       Append(@, Handled(steps[Top.i], steps[Top.i].cv))]
         /\ ev' = Ev("copy", Top, steps[Top.i].cv, 0)
    /\ UNCHANGED <<value, type_, input, current_check, failed_check, sess, errs, ret, hist>>

\* lines 511-512: optional_keys is computed with k.startswith('?') for every
\* key of the descriptor, before any key of the value is looked at
FinalAttributeError ==
    /\ stack # <<>> /\ Top.pc = "final" /\ ret.st = "none" /\ NonStrKey(Top.t)
    /\ Raise("attribute_error", Len(errs) + 1,
             Append(errs, AttributeError("'int' object has no attribute 'startswith'")),
             Rollback(sess, Top))

\* line 527: re.search is handed a key that is no str
FinalKeyError ==
    /\ InFinal /\ ret.st = "none" /\ Missing = {}
    /\ \E steps \in {Steps} : Top.i <= Len(steps) /\ steps[Top.i].role = "typeerror"
    /\ Raise("key_error", Len(errs) + 1,
             Append(errs, TypeError("expected string or bytes-like object")),
             Rollback(sess, Top))

FinalChildOk ==
    /\ InFinal /\ ret.st = "ok"
    /\ \E kid \in {Steps[Top.i]} :
         LET keep == Top.shell = NoRef \/ kid.role \in {"key", "base", "props"}
         IN  /\ heap' = IF keep THEN heap
                        ELSE [heap EXCEPT ![Top.shell.n] =
                                 Fill(@, kid, IF kid.role = "val" THEN Top.acc[1] ELSE kid.key, ret.r)]
             /\ stack' = [stack EXCEPT ![Len(stack)].i = @ + 1,
                                       ![Len(stack)].acc =
                                           IF keep THEN Append(@, ret.r) ELSE <<>>,
                                       ![Len(stack)].kids = Append(@, Handled(kid, ret.r))]
    /\ ret' = NoRet
    /\ ev' = Ev("child_ok", Top, ret.r, 0)
    /\ UNCHANGED <<value, type_, input, current_check, failed_check, sess, errs, hist>>

\* a checker that wraps the error of an element in an error of its own
FinalChildRaisedWrapped ==
    /\ InFinal /\ ret.st = "err"
    /\ Raise("child_raised", Len(errs) + 1,
             Append(errs, TypeMismatchException(Top.v, Top.t, "")), Rollback(sess, Top))

\* the exception of recursive_check_type leaves final_check_type and
\* _customized_check (no except clause there) and reaches line 1236
FinalChildRaised ==
    /\ InFinal /\ ret.st = "err"
    /\ Raise("child_raised", ret.e, errs, Rollback(sess, Top))

\* lines 1157-1165 with no shell: the checker's result is returned
FinalReturnBuilt ==
    /\ InFinal /\ ret.st = "none" /\ Missing = {}
    /\ Top.i > Len(Steps) /\ Top.shell = NoRef /\ Types[Top.t].kind \notin {"extra", "class_"}
    /\ Return("return_built", HRef(Len(heap) + 1), Commit(sess, Top),
              Append(heap, Build(Top.v, Top.t, Top.acc)))

\* the object that final_check_type hands back is returned: here a copy of
\* the shell
FinalReturnShellCopy ==
    /\ InFinal /\ ret.st = "none" /\ Missing = {}
    /\ Top.i > Len(Steps) /\ Top.shell # NoRef /\ Types[Top.t].kind \notin {"extra", "class_"}
    /\ Return("return_shell", HRef(Len(heap) + 1), Commit(sess, Top),
              Append(heap, heap[Top.shell.n]))

\* lines 1172-1181 with a shell: the shell is returned
FinalReturnShell ==
    /\ InFinal /\ ret.st = "none" /\ Missing = {}
    /\ Top.i > Len(Steps) /\ Top.shell # NoRef /\ Types[Top.t].kind \notin {"extra", "class_"}
    /\ Return("return_shell", Top.shell, Commit(sess, Top), heap)

(***************************************************************************)
(* ObjectChecker: pre_check_type returns a new instance or the value       *)
(* itself (lines 1044-1047); final_check_type after the property check     *)
(* (lines 1051-1059).                                                      *)
(***************************************************************************)
ObjectPreCheck ==
    /\ Composite /\ PairOf(Top) \notin sess[Top.s].loop
    /\ PreCheck(Top.v, Top.t) \in {"obj", "self"}
    /\ LET fresh == PreCheck(Top.v, Top.t) = "obj"
           shell == IF fresh THEN HRef(Len(heap) + 2) ELSE Top.v
       IN  /\ heap' = IF fresh
                      THEN heap \o <<Obj("dict"), [Obj("obj") EXCEPT !.items = <<HRef(Len(heap) + 1)>>]>>
                      ELSE heap
           /\ current_check' = Upd(current_check, PairOf(Top), InProgressEntry(shell, Top.v))
           /\ stack' = [stack EXCEPT ![Len(stack)].pc = "final",
                                     ![Len(stack)].shell = shell,
                                     ![Len(stack)].base = sess[Top.s].succ,
                                     ![Len(stack)].hooks = BeforeSteps(Top.v, Top.t)]
           /\ ev' = Logged(Ev("pre_check_object", Top, shell, 0), BeforeSteps(Top.v, Top.t))
    /\ sess' = Append(SubSeq(sess, 1, Top.s), NewSession(sess[Top.s].succ))
    /\ UNCHANGED <<value, type_, input, failed_check, errs, ret, hist>>

ObjectDone ==
    /\ InFinal /\ ret.st = "none" /\ Types[Top.t].kind = "class_" /\ Top.i > Len(Steps)

\* the __dict__ of the shell after merge (line 1052) and after modify
\* (line 1058)
Merged ==
    LET to == DictOf(Top.shell)
        now == [kind |-> KindOf(to), keys |-> KeysOf(to), items |-> ItemsOf(to)]
    IN  IF Has(Top.t, "merge")
        THEN DictUpdate(now, KeysOf(Top.acc[1]), ItemsOf(Top.acc[1])) ELSE now
Modified == IF Has(Top.t, "modify") THEN ObjectModify(Merged) ELSE Merged

\* the objects created by the check, and the objects of the value, after
\* the __dict__ of the shell has become d
HeapWith(d) ==
    IF DictOf(Top.shell).h THEN [heap EXCEPT ![DictOf(Top.shell).n] = d] ELSE heap
InputWith(d) ==
    IF DictOf(Top.shell).h THEN input
    ELSE [input EXCEPT ![DictOf(Top.shell).v].keys = d.keys,
                       ![DictOf(Top.shell).v].items = d.items]

\* lines 1053-1056: check returns False (after the merge)
ObjectGateFails ==
    /\ ObjectDone /\ Has(Top.t, "check") /\ ~ObjectCheck(Merged)
    /\ RaiseWith("object_gate_fails", Len(errs) + 1,
                 Append(errs, TypeMismatchException(Top.v, Top.t, "check returns False")),
                 Rollback(sess, Top), ObjectAfterSteps(Top.t, Top.shell, Top.acc[1], FALSE),
                 HeapWith(Merged), InputWith(Merged))

\* lines 1051-1059, then lines 1178-1181
ObjectReturn ==
    /\ ObjectDone /\ (Has(Top.t, "check") => ObjectCheck(Merged))
    /\ ev' = Logged(Ev("object_return", Top, Top.shell, 0),
                    ObjectAfterSteps(Top.t, Top.shell, Top.acc[1], TRUE))
    /\ ReturnWith(Top.shell, Commit(sess, Top), HeapWith(Modified), InputWith(Modified))

(***************************************************************************)
(* ExtraChecker.final_check_type after the recursion: lines 847-857.       *)
(***************************************************************************)
ExtraDone ==
    /\ InFinal /\ ret.st = "none" /\ Types[Top.t].kind = "extra" /\ Top.i > Len(Steps)

\* lines 847-850: check returns False
ExtraGateFails ==
    /\ ExtraDone /\ Has(Top.t, "check") /\ ~CheckHook(Top.acc[1])
    /\ RaiseLog("gate_fails", Len(errs) + 1,
                Append(errs, TypeMismatchException(Top.v, Top.t, "check returns False")),
                Rollback(sess, Top), ExtraAfterHooks(Top.t, Top.acc[1], Top.acc[1]))

\* lines 851-857, then lines 1164-1165 or 1178-1181
ExtraReturn ==
    /\ ExtraDone /\ (Has(Top.t, "check") => CheckHook(Top.acc[1]))
    /\ LET r == Top.acc[1]
           c == IF Has(Top.t, "convert") THEN HRef(Len(heap) + 1) ELSE r
           hp == IF Has(Top.t, "convert") THEN Append(heap, ConvertHook(r)) ELSE heap
           merged == IF Top.shell # NoRef
                     THEN [hp EXCEPT ![Top.shell.n] = MergeHook(@, c)] ELSE hp
           out == IF Top.shell # NoRef THEN Top.shell ELSE c
       IN  /\ ev' = Logged(Ev("extra_return", Top, out, 0), ExtraAfterHooks(Top.t, r, c))
           /\ ReturnBut(out, Commit(sess, Top), merged)

Next ==
    \/ HitSucceeded \/ HitFailed \/ HitCurrent
    \/ CheckPrimitive \/ Unrecognized
    \/ AltEnter \/ AltTry \/ AltExhausted
    \/ AltChildOk \/ AltChildMismatch \/ AltChildError
    \/ ListInvalid \/ LoopGuard \/ PreCheckFails \/ PreCheckNone \/ PreCheckShell
    \/ FinalAttributeError
    \/ FinalMissingKey \/ FinalRecurse \/ FinalCopy \/ FinalKeyError
    \/ FinalChildOk \/ FinalChildRaised
    \/ FinalReturnBuilt \/ FinalReturnShell
    \/ ExtraGateFails \/ ExtraReturn
    \/ ObjectPreCheck \/ ObjectGateFails \/ ObjectReturn

Spec == Init /\ [][Next]_vars

\* a later top-level call check_type(v, t): line 385 passes no
\* _recursive_check, so lines 1124-1129 make new tables.  The objects and
\* the errors of the earlier calls are still there.
SecondCall(v, t, h) ==
    /\ type_' = t
    /\ stack' = <<Frame(v, t, 1)>>
    /\ current_check' = <<>> /\ failed_check' = <<>>
    /\ sess' = <<NewSession(<<>>)>>
    /\ ret' = NoRet
    /\ ev' = [op |-> "call", v |-> v, t |-> t, depth |-> 1, r |-> NoRef, e |-> 0,
              log |-> <<>>, kids |-> <<>>, hooks |-> <<>>, trace |-> <<>>, shell |-> NoRef]
    /\ hist' = h
    /\ UNCHANGED <<value, input, heap, errs>>

\* the caller passes the result to check_type again, with the same
\* descriptor: r2 = check_type(check_type(value, type_), type_).  The second
\* call has tables of its own (line 385, lines 1122-1133); the objects the first call
\* made are its input.
CheckAgain ==
    /\ Done /\ ret.st = "ok" /\ hist.first = NoRef /\ hist.before.st = "none"
    /\ SecondCall(ret.r, type_, [NoHistory EXCEPT !.first = ret.r])

TwiceSpec == Init /\ [][Next \/ CheckAgain]_vars

\* how the top-level call that has just ended, ended: returned or raised,
\* and the class and the descriptor of the error raised
Outcome ==
    [st |-> ret.st,
     kind |-> IF ret.st = "err" THEN errs[ret.e].kind ELSE "",
     t |-> IF ret.st = "err" THEN errs[ret.e].t ELSE ""]

\* the caller makes the same call again: check_type(value, type_), twice
CallAgain ==
    /\ Done /\ hist.first = NoRef /\ hist.before.st = "none"
    /\ SecondCall(VRef(value), type_, [NoHistory EXCEPT !.before = Outcome])

RepeatSpec == Init /\ [][Next \/ CallAgain]_vars

\* the machine never stops before the call has ended: the interpreter
\* runs the call to its end
FairSpec == Spec /\ WF_vars(Next)

(***************************************************************************)
(* The decorator checked: the wrapper _f of checked.py, lines 128-147, and *)
(* of wrap_async, _checked_35.py lines 9-30 (the same statements, with     *)
(* `await f(...)` for `f(...)`).  A decorated function is called with      *)
(* arguments; getcallargs has packed the ones taken by *args into a tuple  *)
(* and the ones taken by **kwargs into a dict.  The engine runs one        *)
(* top-level check_type call at a time, on the objects and the errors of   *)
(* the calls before it.                                                    *)
(***************************************************************************)
\* the decorated functions, after the doctests of checked (lines 26-67):
\* the annotation of every parameter ("" for none), which parameter is
\* *args and which is **kwargs (0 for none; they are the last ones), the
\* 'return' annotation, which of the objects it is called with the body
\* gives back, and whether it is a coroutine function
Functions ==
    LET Fn(params, star, kw, returns, gives, async) ==
            [params |-> params, star |-> star, kw |-> kw, returns |-> returns,
             gives |-> gives, async |-> async]
    IN  ( "f"     :> Fn(<<"", "int">>, 0, 0, "", 2, FALSE) )
     @@ ( "f2"    :> Fn(<<"int">>, 0, 0, "", 1, FALSE) )
     @@ ( "test3" :> Fn(<<"str", "N1", "Dob">>, 2, 3, "", 2, TRUE) )
     @@ ( "g"     :> Fn(<<"N1">>, 0, 0, "N1", 1, FALSE) )
     @@ ( "h"     :> Fn(<<"int", "">>, 0, 0, "str", 2, TRUE) )

\* _f has been called: call_args = inspect.getcallargs(...), line 130
CheckedInit ==
    /\ value = "" /\ type_ = "" /\ input = Original
    /\ stack = <<>> /\ current_check = <<>> /\ failed_check = <<>>
    /\ sess = <<NewSession(<<>>)>>
    /\ heap = <<>> /\ errs = <<>>
    /\ ret = NoRet
    /\ ev = [op |-> "checked", v |-> NoRef, t |-> "", depth |-> 0, r |-> NoRef, e |-> 0,
             log |-> <<>>, kids |-> <<>>, hooks |-> <<>>, trace |-> <<>>, shell |-> NoRef]
    /\ \E f \in DOMAIN Functions :
       \E a \in [1..Len(Functions[f].params) ->
                    {"one", "abc", "R1", "t1", "tp", "d_a", "obd", "d_re"}] :
          /\ \A j \in DOMAIN a :
                a[j] \in IF j = Functions[f].star THEN {"t1", "tp"}
                         ELSE IF j = Functions[f].kw THEN {"d_a", "obd", "d_re"}
                         ELSE {"one", "abc", "R1"}
          /\ hist = [NoHistory EXCEPT !.call =
                        [@ EXCEPT !.f = f, !.pc = "loop", !.k = 1,
                                  !.orig = [j \in DOMAIN a |-> VRef(a[j])],
                                  !.args = [j \in DOMAIN a |-> VRef(a[j])]]]

\* lines 134-140: the arguments f is called with: the positional ones, then
\* the elements of the *args value, then the values of the **kwargs dict
\* (passed by their keys)
Received(fn, args) ==
    LET n == Len(fn.params) - (IF fn.star # 0 THEN 1 ELSE 0) - (IF fn.kw # 0 THEN 1 ELSE 0)
    IN  SubSeq(args, 1, n)
        \o (IF fn.star # 0 THEN ItemsOf(args[fn.star]) ELSE <<>>)
        \o (IF fn.kw # 0 THEN ItemsOf(args[fn.kw]) ELSE <<>>)

CheckedStays == UNCHANGED <<value, type_, input, stack, current_check, failed_check, sess,
                            heap, errs, ret, ev>>

\* lines 131-133: the loop is at parameter k; with an annotation check_type
\* is called for it
CheckedArgument ==
    /\ Done /\ hist.call.pc = "loop" /\ hist.call.k <= Len(hist.call.args)
    /\ \E t \in {Functions[hist.call.f].params[hist.call.k]} :
          IF t = ""
          THEN hist' = [hist EXCEPT !.call.k = @ + 1] /\ CheckedStays
          ELSE SecondCall(hist.call.args[hist.call.k], t,
                          [NoHistory EXCEPT !.call = [hist.call EXCEPT !.pc = "arg"]])

\* line 133: check_type has returned and call_args[k] is its result, or it
\* has raised and the error leaves _f
CheckedArgumentDone ==
    /\ Done /\ hist.call.pc = "arg"
    /\ hist' = [hist EXCEPT !.call =
                   [@ EXCEPT !.checks = Append(@, [v |-> ev.v, t |-> ev.t, ret |-> ret]),
                             !.args[hist.call.k] = IF ret.st = "ok" THEN ret.r ELSE @,
                             !.k = @ + 1,
                             !.pc = IF ret.st = "ok" THEN "loop" ELSE "raised",
                             !.out = IF ret.st = "ok" THEN @ ELSE ret]]
    /\ CheckedStays

\* f is called with the arguments as the caller passed them
CheckedInvokeOriginals ==
    /\ Done /\ hist.call.pc = "loop" /\ hist.call.k > Len(hist.call.args)
    /\ hist' = [hist EXCEPT !.call =
                   [@ EXCEPT !.got = Received(Functions[hist.call.f], hist.call.orig),
                             !.calls = @ + 1, !.pc = "called"]]
    /\ CheckedStays

\* lines 134-141 (_checked_35.py lines 18-25): the loop has ended, f is
\* called with the arguments made of call_args; a coroutine function is
\* awaited, and _f is suspended until its body has ended
CheckedInvoke ==
    /\ Done /\ hist.call.pc = "loop" /\ hist.call.k > Len(hist.call.args)
    /\ hist' = [hist EXCEPT !.call =
                   [@ EXCEPT !.got = Received(Functions[hist.call.f], hist.call.args),
                             !.calls = @ + 1, !.pc = "called"]]
    /\ CheckedStays

\* _checked_35.py line 25: while _f waits for the body of a coroutine
\* function, the event loop runs another callback, which makes a top-level
\* check_type call of its own (one such call is followed); check_type does
\* not await, so the call runs to its end before _f goes on
CheckedOther ==
    /\ Done /\ hist.call.pc = "called" /\ Functions[hist.call.f].async
    /\ ~hist.call.other
    /\ \E v \in {"one", "ob"} : \E t \in {"str", "Oin"} :
          SecondCall(VRef(v), t,
                     [NoHistory EXCEPT !.call = [hist.call EXCEPT !.other = TRUE]])

\* lines 141-145 (_checked_35.py lines 25-29): f has given its result; it
\* is returned, or passed to check_type when there is a 'return' annotation
CheckedResult ==
    /\ Done /\ hist.call.pc = "called"
    /\ \E fn \in {Functions[hist.call.f]} :
       \E after \in {[hist.call EXCEPT !.given = hist.call.got[fn.gives]]} :
          IF fn.returns = ""
          THEN /\ hist' = [hist EXCEPT !.call = [after EXCEPT !.pc = "returned",
                                                              !.out = Ok(after.given)]]
               /\ CheckedStays
          ELSE SecondCall(after.given, fn.returns,
                          [NoHistory EXCEPT !.call = [after EXCEPT !.pc = "ret"]])

\* line 143: check_type(_return, ...) has returned and _f returns its
\* result, or it has raised and the error leaves _f
CheckedReturn ==
    /\ Done /\ hist.call.pc = "ret"
    /\ hist' = [hist EXCEPT !.call =
                   [@ EXCEPT !.checks = Append(@, [v |-> ev.v, t |-> ev.t, ret |-> ret]),
                             !.pc = IF ret.st = "ok" THEN "returned" ELSE "raised",
                             !.out = ret]]
    /\ CheckedStays

CheckedSpec ==
    /\ Init \/ CheckedInit
    /\ [][Next \/ CheckedArgument \/ CheckedArgumentDone \/ CheckedInvoke \/ CheckedOther
              \/ CheckedResult \/ CheckedReturn]_vars

(***************************************************************************)
(* Construction of the built-in checkers: list_, dict_, tuple_, extra and  *)
(* type_.  The checker object is the one object of the heap; no call of    *)
(* check_type is in progress (the stack is empty).  A configuration names  *)
(* the kind of the first argument (for type_: of metaclass), its length    *)
(* when it is a list or a tuple, the hooks given to extra, the kind of     *)
(* baseclass given to type_, and whether bind is called by the constructor *)
(* or later (delayed).                                                     *)
(***************************************************************************)

Config(ctor, arg, n, hooks, base, delayed) ==
    [ctor |-> ctor, arg |-> arg, n |-> n, hooks |-> hooks, base |-> base, delayed |-> delayed]

Configs ==
    LET ArgKinds == {"int", "str", "none", "class", "checker", "list", "tuple", "dict"}
        HookNames == {"check_before", "precreate", "convert_before", "check", "convert",
                      "merge"}
    IN  {Config(c, a, n, {}, "none", d) :
            c \in {"list_", "dict_", "tuple_"}, a \in ArgKinds \ {"list", "tuple"}, n \in {0},
            d \in BOOLEAN}
        \cup {Config(c, a, n, {}, "none", d) :
            c \in {"list_", "dict_", "tuple_"}, a \in {"list", "tuple"}, n \in 0..MaxLen,
            d \in BOOLEAN}
        \cup {Config("extra", "class", 0, h, "none", d) : h \in SUBSET HookNames, d \in BOOLEAN}
        \cup {Config("type_", a, 0, {}, b, d) :
            a \in ArgKinds, b \in {"none", "class", "int"}, d \in BOOLEAN}

\* a bind that accepts every list
BindProblemLenient(c) ==
    CASE c.ctor = "list_" -> IF c.arg # "list" THEN "must be a list" ELSE ""
      [] c.ctor = "dict_" -> IF c.arg # "dict" THEN "must be a dict" ELSE ""
      [] c.ctor = "tuple_" ->
            IF c.arg \notin {"list", "tuple"} THEN "must use a tuple/list of types" ELSE ""
      [] c.ctor = "extra" ->
            IF ("precreate" \in c.hooks) # ("merge" \in c.hooks)
            THEN "precreate and merge must be used together" ELSE ""
      [] c.ctor = "type_" ->
            IF c.arg # "class" THEN " is not a metaclass"
            ELSE IF c.base \notin {"none", "class"} THEN " is not a baseclass" ELSE ""

\* the message of the InvalidTypeException bind raises, "" when it returns:
\* ListChecker.bind (lines 422-426), DictChecker.bind (487-488),
\* TupleChecker.bind (618-620), ExtraChecker.bind (823-826),
\* TypeChecker.bind (1101-1108)
BindProblem(c) ==
    CASE c.ctor = "list_" ->
            IF c.arg # "list" THEN "must be a list"
            ELSE IF c.n > 1 THEN "list must contain 0 or 1 valid inner type" ELSE ""
      [] c.ctor = "dict_" -> IF c.arg # "dict" THEN "must be a dict" ELSE ""
      [] c.ctor = "tuple_" ->
            IF c.arg \notin {"list", "tuple"} THEN "must use a tuple/list of types" ELSE ""
      [] c.ctor = "extra" ->
            IF ("precreate" \in c.hooks) # ("merge" \in c.hooks)
            THEN "precreate and merge must be used together" ELSE ""
      [] c.ctor = "type_" ->
            IF c.arg # "class" THEN " is not a metaclass"
            ELSE IF c.base \notin {"none", "class"} THEN " is not a baseclass" ELSE ""

Checker(c, pc) == [kind |-> c.ctor, keys |-> <<>>, items |-> <<>>, cfg |-> c, pc |-> pc]
BindEv(op, e) ==
    [op |-> op, v |-> NoRef, t |-> "", depth |-> 0, r |-> NoRef, e |-> e,
     log |-> <<>>, kids |-> <<>>, hooks |-> <<>>, trace |-> <<>>, shell |-> NoRef]

\* the constructor has been called, nothing has run yet
BindInit ==
    /\ value = "" /\ type_ = "" /\ input = <<>>
    /\ stack = <<>> /\ current_check = <<>> /\ failed_check = <<>>
    /\ sess = <<NewSession(<<>>)>>
    /\ \E c \in Configs : heap = <<Checker(c, "new")>>
    /\ errs = <<>>
    /\ ret = NoRet
    /\ ev = BindEv("new", 0)
    /\ hist = NoHistory

Constructing == stack = <<>> /\ Len(heap) = 1 /\ ev.op \in {"new", "construct", "call_bind"}
BindStays == UNCHANGED <<value, type_, input, stack, current_check, failed_check, sess, hist>>

\* CustomizedChecker.__init__, lines 53-58: bind is called when there are
\* arguments; without arguments the unbound checker is returned
Construct ==
    /\ Constructing /\ heap[1].pc = "new"
    /\ heap' = [heap EXCEPT ![1].pc = IF heap[1].cfg.delayed THEN "unbound" ELSE "bind"]
    /\ ret' = IF heap[1].cfg.delayed THEN Ok(HRef(1)) ELSE NoRet
    /\ ev' = BindEv("construct", 0)
    /\ UNCHANGED errs /\ BindStays

\* the delayed checker.bind(...)
CallBind ==
    /\ Constructing /\ heap[1].pc = "unbound"
    /\ heap' = [heap EXCEPT ![1].pc = "bind"]
    /\ ret' = NoRet
    /\ ev' = BindEv("call_bind", 0)
    /\ UNCHANGED errs /\ BindStays

BindRaises ==
    /\ Constructing /\ heap[1].pc = "bind" /\ BindProblem(heap[1].cfg) # ""
    /\ heap' = [heap EXCEPT ![1].pc = "raised"]
    /\ errs' = Append(errs, InvalidTypeException("", BindProblem(heap[1].cfg)))
    /\ ret' = Err(Len(errs) + 1)
    /\ ev' = BindEv("bind_raises", Len(errs) + 1)
    /\ BindStays

\* bind has no return statement: the delayed call checker.bind(...) gives
\* None; when the constructor called bind, the constructor call gives the
\* checker
BindReturns ==
    /\ Constructing /\ heap[1].pc = "bind" /\ BindProblem(heap[1].cfg) = ""
    /\ heap' = [heap EXCEPT ![1].pc = "bound"]
    /\ ret' = IF heap[1].cfg.delayed THEN Ok(VRef("none")) ELSE Ok(HRef(1))
    /\ ev' = BindEv("bind_returns", 0)
    /\ UNCHANGED errs /\ BindStays


\* every call of the module: check_type, or the construction of a checker
BindSpec ==
    /\ Init \/ BindInit
    /\ [][Next \/ Construct \/ CallBind \/ BindRaises \/ BindReturns]_vars

(***************************************************************************)
(* Result graphs.                                                          *)
(***************************************************************************)
Succ1(S) == S \cup UNION {
    {heap[r.n].items[k] : k \in 1..Len(heap[r.n].items)}
        \cup {heap[r.n].keys[k] : k \in 1..Len(heap[r.n].keys)} : r \in {x \in S : x.h}}

RECURSIVE Closure(_)
Closure(S) == IF Succ1(S) = S THEN S ELSE Closure(Succ1(S))

\* the objects of the result graph of r
Reach(r) == Closure({r})

HasShell(v, t) == IsChecker(t) /\ ~ListBindInvalid(t) /\ PreCheck(v, t) \notin {"fail", "none"}

(***************************************************************************)
(* C1.  A top-level check_type call terminates: no pair has two            *)
(* activations in their second phase unless both are shell-less and run in *)
(* different sessions (so the recursion is bounded by the number of pairs  *)
(* and sessions), and the call eventually returns or raises.               *)
(***************************************************************************)
NoReentry ==
    \A i, j \in 1..Len(stack) :
        (i < j /\ PairOf(stack[i]) = PairOf(stack[j])
               /\ stack[i].pc = "final" /\ stack[j].pc = "final")
        => (stack[i].shell = NoRef /\ stack[j].shell = NoRef /\ stack[i].s # stack[j].s)

C1_Terminates == []NoReentry /\ <>Done

\* a check that met a cycle (a lookup answered from the in-progress table
\* or a loop-guard hit) has ended with a result
C1_Witness == Done /\ hist.cut /\ ret.st = "ok"

(***************************************************************************)
(* C2.  No pair whose check returned a result is later, in the same        *)
(* top-level call, answered with a cached failure.                         *)
(***************************************************************************)
C2_FailureIsDeterministic == hist.stale = {}

(***************************************************************************)
(* C3.  As claimed: when the second phase of any composite check fails,    *)
(* the succeeded table of its session is what it was when the phase        *)
(* started (nothing recorded during the phase is left in it).              *)
(***************************************************************************)
SecondPhaseFails == FinalChildRaised \/ FinalMissingKey

C3_RollbackAnyComposite == [][SecondPhaseFails => sess'[Top.s].succ = Top.base]_vars

(***************************************************************************)
(* C3, amended.  When the second phase of a composite check whose          *)
(* pre-check gave a shell fails, the succeeded table of its session is     *)
(* what it was when the phase started and the snapshot is gone; when a     *)
(* second phase succeeds, every entry recorded during it is in the         *)
(* enclosing succeeded table.                                              *)
(***************************************************************************)
C3_Rollback ==
    [][ /\ (SecondPhaseFails /\ Top.shell # NoRef)
            => (Len(sess') = Top.s /\ sess'[Top.s].succ = Top.base)
        /\ FinalReturnShell
            => \A p \in DOMAIN sess[Top.s + 1].succ :
                  p \in DOMAIN sess'[Top.s].succ
                  /\ sess'[Top.s].succ[p] = sess[Top.s + 1].succ[p]
        /\ FinalReturnBuilt
            => \A p \in DOMAIN sess[Top.s].succ :
                  p \in DOMAIN sess'[Top.s].succ
                  /\ sess'[Top.s].succ[p] = sess[Top.s].succ[p] ]_vars

\* a success recorded in a phase that failed was dropped, and the pair,
\* checked again later, failed
C3_Witness == \E p \in hist.dropped : p \in DOMAIN failed_check

(***************************************************************************)
(* C4.  As claimed: in the result of a successful check, all the result    *)
(* objects made for one (value, descriptor) pair are one object.           *)
(***************************************************************************)
SharedIn(M) ==
    (Done /\ ret.st = "ok")
    => \A x, y \in M :
          (x[1] = y[1] /\ x[2] = y[2] /\ x[3] \in Reach(ret.r) /\ y[3] \in Reach(ret.r))
          => x[3] = y[3]

C4_SharingAnyPair == SharedIn(hist.made)

(***************************************************************************)
(* C4, amended.  In the result of a successful check, all the result       *)
(* objects made for one pair whose checker provided a shell, or whose      *)
(* descriptor is a primitive, are one object.                              *)
(***************************************************************************)
C4_Sharing ==
    SharedIn({x \in hist.made : HasShell(x[1], x[2]) \/ IsPrimitive(x[2])})

\* [o1, o1] against my_type = [(int, my_type)]: r[0] is r[1], a new list
C4_Witness ==
    /\ Done /\ ret.st = "ok" /\ value = "pair" /\ type_ = "mt371"
    /\ heap[ret.r.n].items[1] = heap[ret.r.n].items[2]
    /\ heap[ret.r.n].items[1].h

(***************************************************************************)
(* C5.  A lookup of a pair whose second phase is running returns, without  *)
(* recursing, the shell registered for the pair; that shell is what the    *)
(* outer activation returns; for a = [a] checked against itself the        *)
(* result r satisfies r[0] is r.                                           *)
(***************************************************************************)
C5_EagerPlaceholder ==
    /\ (Entered /\ \E i \in 1..(Len(stack) - 1) :
                        /\ PairOf(stack[i]) = PairOf(Top)
                        /\ stack[i].pc = "final" /\ stack[i].shell # NoRef)
        => Found = "current"
    /\ ev.op = "hit_current"
        => /\ Len(stack) = ev.depth - 1
           /\ ret = Ok(ev.r)
           /\ \E i \in 1..Len(stack) :
                 /\ PairOf(stack[i]) = <<ev.v, ev.t>>
                 /\ stack[i].pc = "final"
                 /\ stack[i].shell = ev.r
    /\ \A x \in hist.handed :
          \/ (<<x[1], x[2]>> \in DOMAIN current_check /\ current_check[<<x[1], x[2]>>] = x[3])
          \/ x \in hist.ended
          \/ x[3] \in hist.aborted
    /\ (Done /\ value = "a" /\ type_ = "my_type")
        => (ret.st = "ok" /\ ret.r.h /\ heap[ret.r.n].items = <<ret.r>>)

C5_Witness ==
    /\ Done /\ value = "a" /\ type_ = "my_type"
    /\ hist.handed # {} /\ hist.handed \subseteq hist.ended

(***************************************************************************)
(* C6.  A composite pair is found under the loop guard iff an activation   *)
(* of the same pair that has no shell is in its second phase with no       *)
(* shell-providing activation in between (a direct re-entry); a direct     *)
(* re-entry ends in a structural mismatch; a re-entry through a            *)
(* shell-providing container is allowed, that is, the pair is checked      *)
(* again (its lookup misses and it is not under the loop guard), and       *)
(* gives a cyclic result (l = [l] against tuple_([[tuple_type]])).         *)
(***************************************************************************)
DirectReentry ==
    \E i \in 1..(Len(stack) - 1) :
        /\ PairOf(stack[i]) = PairOf(Top)
        /\ stack[i].guard
        /\ \A k \in (i + 1)..(Len(stack) - 1) : stack[k].shell = NoRef

IndirectReentry ==
    \E i \in 1..(Len(stack) - 1) :
        /\ PairOf(stack[i]) = PairOf(Top)
        /\ stack[i].guard
        /\ \E k \in (i + 1)..(Len(stack) - 1) : stack[k].shell # NoRef

C6_LoopGuard ==
    /\ Entered => (PairOf(Top) \in sess[Top.s].loop <=> DirectReentry)
    /\ (Entered /\ DirectReentry)
        => \/ Found = "miss"
           \/ Found = "failed" /\ errs[failed_check[PairOf(Top)]].kind = "TypeMismatch"
    /\ ev.op = "loop_guard"
        => (ret.st = "err" /\ errs[ret.e] = TypeMismatchException(ev.v, ev.t, ""))
    /\ (Entered /\ IndirectReentry /\ ~DirectReentry)
        => (Found = "miss" /\ PairOf(Top) \notin sess[Top.s].loop)
    /\ (Done /\ value = "a" /\ type_ = "T582")
        => /\ ret.st = "ok" /\ heap[ret.r.n].kind = "tuple"
           /\ LET r1 == heap[ret.r.n].items[1]
                  r2 == heap[r1.n].items[1]
              IN  heap[r1.n].kind = "list" /\ heap[r2.n].kind = "tuple"
                  /\ heap[r2.n].items[1] = r1

(***************************************************************************)
(* C7.  Alternatives are checked in their listed order, on the same value  *)
(* and in the same session; the result is that of the first alternative    *)
(* that succeeds and no alternative after it is evaluated.                 *)
(***************************************************************************)
InOrder(t, log, n) ==
    \A k \in 1..n : log[k].t = Types[t].items[k] /\ log[k].out = "TypeMismatch"

C7_FirstMatch ==
    /\ \A k \in 1..(Len(stack) - 1) :
          stack[k].pc = "alt"
          => /\ stack[k + 1].v = stack[k].v
             /\ stack[k + 1].t = Types[stack[k].t].items[stack[k].i]
             /\ stack[k + 1].s = stack[k].s
    /\ \A k \in 1..Len(stack) :
          stack[k].pc = "alt"
          => /\ Len(stack[k].log) = stack[k].i - 1
             /\ InOrder(stack[k].t, stack[k].log, Len(stack[k].log))
    /\ ev.op = "alt_ok"
        => LET n == Len(ev.log)
           IN  /\ n >= 1 /\ InOrder(ev.t, ev.log, n - 1)
               /\ ev.log[n].t = Types[ev.t].items[n]
               /\ ev.log[n].out = "ok"
               /\ ret = Ok(ev.log[n].r)

\* the second of three alternatives matched: the third was not evaluated
C7_Witness ==
    ev.op = "alt_ok" /\ Len(ev.log) = 2 /\ Len(Types[ev.t].items) = 3

(***************************************************************************)
(* C8.  When every alternative fails with a structural mismatch the        *)
(* alternation raises a new structural mismatch whose value is the value   *)
(* checked and whose descriptor is the whole alternation.                  *)
(***************************************************************************)
C8_Exhausted ==
    ev.op = "alt_exhausted"
    => /\ Len(ev.log) = Len(Types[ev.t].items)
       /\ InOrder(ev.t, ev.log, Len(ev.log))
       /\ ret.st = "err" /\ ret.e = Len(errs)
       /\ \A k \in 1..Len(ev.log) : ev.log[k].e # ret.e
       /\ errs[ret.e].kind = "TypeMismatch"
       /\ errs[ret.e].v = ev.v
       /\ errs[ret.e].t = ev.t

C8_Witness == ev.op = "alt_exhausted" /\ Len(ev.log) = 2

(***************************************************************************)
(* C9.  As claimed: a check against an alternation that lists a malformed  *)
(* alternative raises invalid-descriptor.                                  *)
(***************************************************************************)
Malformed(t) == Types[t].kind = "unknown" \/ ListBindInvalid(t)

RaisedInvalid == ret.st = "err" /\ errs[ret.e].kind = "InvalidType"

C9_MalformedAlwaysRaises ==
    (Done /\ IsAlternation(type_)
          /\ \E k \in 1..Len(Types[type_].items) : Malformed(Types[type_].items[k]))
    => RaisedInvalid

(***************************************************************************)
(* C9, amended.  A malformed alternative that is reached (every            *)
(* alternative before it mismatched) is never tried and skipped: from the  *)
(* moment its invalid-descriptor error is raised every step of the call    *)
(* propagates that error, no further alternative is tried and the call     *)
(* raises it.  (A malformed alternative listed after one that matches is   *)
(* not evaluated.)                                                         *)
(***************************************************************************)
C9_InvalidAborts ==
    /\ (\E e \in 1..Len(errs) : errs[e].kind = "InvalidType")
        => (RaisedInvalid /\ ret.e = Len(errs))
    /\ ev.op = "alt_error"
        => /\ RaisedInvalid
           /\ Malformed(Types[ev.t].items[Len(ev.log) + 1])
           /\ InOrder(ev.t, ev.log, Len(ev.log))

\* 1 against (str, 1): str mismatched, the malformed alternative aborted the call
C9_Witness ==
    Done /\ ev.op = "alt_error" /\ Len(ev.log) = 1 /\ RaisedInvalid

(***************************************************************************)
(* C10.  Every entry of the failed table holds a structural-mismatch       *)
(* error.                                                                  *)
(***************************************************************************)
C10_FailedHoldsMismatches ==
    \A p \in DOMAIN failed_check : errs[failed_check[p]].kind = "TypeMismatch"

(***************************************************************************)
(* C11.  Primitive rules: int matches an int value and never a bool; bool  *)
(* never matches an int; None matches None only; () matches exactly the    *)
(* values that are not None; the classes int, str, bool and list never     *)
(* match None; a primitive that matches returns the value object itself.   *)
(***************************************************************************)
Mismatched == ret.st = "err" /\ errs[ret.e] = TypeMismatchException(ev.v, ev.t, "")

C11_PrimitiveRules ==
    ev.op = "primitive"
    => LET tk == Types[ev.t].kind
           vk == KindOf(ev.v)
       IN  /\ ret.st = "ok" \/ Mismatched
           /\ (tk = "int" /\ vk = "int") => ret.st = "ok"
           /\ (tk = "int" /\ vk = "bool") => Mismatched
           /\ (tk = "bool" /\ vk = "int") => Mismatched
           /\ tk = "none" => (ret.st = "ok" <=> vk = "none")
           /\ tk = "tuple" => (ret.st = "ok" <=> vk # "none")
           /\ (tk \in {"int", "str", "bool", "listcls"} /\ vk = "none") => Mismatched
           /\ ret.st = "ok" => ret.r = ev.v

\* True was checked against int and rejected
C11_Witness ==
    ev.op = "primitive" /\ Types[ev.t].kind = "int" /\ KindOf(ev.v) = "bool" /\ Mismatched

(***************************************************************************)
(* C12.  Sequence auto-wrap: a value that is no list/tuple, checked        *)
(* against a list descriptor that is not strict, gives a new one-element   *)
(* list holding the result of checking the value against the inner type    *)
(* (the value itself when there is none); a strict list descriptor rejects *)
(* such a value with a structural mismatch; a list/tuple input gives a new *)
(* list holding the checked elements in the input's order.                 *)
(***************************************************************************)
IsListType(t) == Types[t].kind \in {"list", "list_"}

\* the steps that end an activation
Ending == {"hit_succeeded", "hit_failed", "hit_current", "pre_check_fails", "loop_guard",
           "child_raised", "return_built", "return_shell", "key_error", "gate_fails",
           "extra_return", "object_gate_fails", "object_return"}

C12_AutoWrap ==
    LET inner == Types[ev.t].items
        made == heap[ret.r.n]
    IN  /\ (ev.op = "return_built" /\ IsListType(ev.t))
            => /\ ~IsSeq(ev.v) /\ ~Types[ev.t].strict
               /\ ret.st = "ok" /\ ret.r.h /\ ret.r # ev.v /\ made.kind = "list"
               /\ IF inner = <<>> THEN made.items = <<ev.v>>
                  ELSE /\ Len(ev.kids) = 1
                       /\ ev.kids[1].call /\ ev.kids[1].cv = ev.v /\ ev.kids[1].ct = inner[1]
                       /\ made.items = <<ev.kids[1].r>>
        /\ (ev.op = "return_shell" /\ IsListType(ev.t))
            => /\ IsSeq(ev.v)
               /\ ret.st = "ok" /\ ret.r.h /\ ret.r # ev.v /\ made.kind = "list"
               /\ Len(ev.kids) = Len(ItemsOf(ev.v))
               /\ Len(made.items) = Len(ev.kids)
               /\ \A j \in 1..Len(ev.kids) :
                     /\ ev.kids[j].cv = ItemsOf(ev.v)[j]
                     /\ made.items[j] = ev.kids[j].r
                     /\ IF inner = <<>> THEN ev.kids[j].r = ev.kids[j].cv
                        ELSE ev.kids[j].call /\ ev.kids[j].ct = inner[1]
        /\ (ev.op \in Ending /\ IsListType(ev.t) /\ Types[ev.t].strict /\ ~IsSeq(ev.v))
            => (ret.st = "err" /\ errs[ret.e].kind = "TypeMismatch" /\ errs[ret.e].v = ev.v)

\* "abc" against [str] gave ["abc"]
C12_Witness ==
    /\ ev.op = "return_built" /\ ev.t = "Lstr" /\ KindOf(ev.v) = "str"
    /\ ret.st = "ok" /\ heap[ret.r.n].items = <<ev.v>>

(***************************************************************************)
(* C13.  Record check: a dict descriptor with keys fails with a mismatch   *)
(* naming the key when a required key (bare or "!") is absent from the     *)
(* input; otherwise its second phase stops only when the check of a        *)
(* declared or pattern-matched key fails, and its result has the input's   *)
(* keys, where a key declared exactly holds the result of checking its     *)
(* value against the declared type, a key not declared exactly but matched *)
(* by a "~" pattern the result of checking against the pattern's type, and *)
(* every other key the input's value object, unchecked.                    *)
(***************************************************************************)
IsRecord(t) == Types[t].kind = "dict" /\ Types[t].keys # <<>>

Absent(v, t) ==
    {Types[t].keys[j].name : j \in {i \in 1..Len(Types[t].keys) :
        /\ Types[t].keys[i].mode \in {"", "!"}
        /\ ~\E n \in 1..Len(KeysOf(v)) : KindOf(KeysOf(v)[n]) = "str"
                                          /\ TextOf(KeysOf(v)[n]) = Types[t].keys[i].name}}

Exact(k, t) ==
    {Types[t].items[j] : j \in {i \in 1..Len(Types[t].keys) :
        /\ Types[t].keys[i].mode \in {"", "!", "?"}
        /\ KindOf(k) = "str" /\ TextOf(k) = Types[t].keys[i].name}}

Matched(k, t) ==
    {Types[t].items[j] : j \in {i \in 1..Len(Types[t].keys) :
        /\ Types[t].keys[i].mode = "~"
        /\ KindOf(k) = "str" /\ Search(Types[t].keys[i].name, TextOf(k))}}

RecordResult ==
    LET made == heap[ret.r.n]
        ks == KeysOf(ev.v)
    IN  /\ ret.st = "ok" /\ ret.r.h /\ made.kind = "dict"
        /\ made.keys = ks
        /\ Len(ev.kids) = Len(ks) /\ Len(made.items) = Len(ks)
        /\ \A j \in 1..Len(ks) :
              /\ ev.kids[j].cv = ItemsOf(ev.v)[j]
              /\ made.items[j] = ev.kids[j].r
              /\ IF Exact(ks[j], ev.t) # {}
                 THEN ev.kids[j].call /\ ev.kids[j].ct \in Exact(ks[j], ev.t)
                 ELSE IF Matched(ks[j], ev.t) # {}
                 THEN ev.kids[j].call /\ ev.kids[j].ct \in Matched(ks[j], ev.t)
                 ELSE ~ev.kids[j].call /\ ev.kids[j].r = ItemsOf(ev.v)[j]

C13_RecordCheck ==
    IsRecord(ev.t)
    => /\ (ev.op \in Ending \cup {"missing_key", "key_error"} /\ KindOf(ev.v) = "dict"
                /\ Absent(ev.v, ev.t) # {})
           => /\ ret.st = "err"
              /\ errs[ret.e].kind = "TypeMismatch"
              /\ errs[ret.e].v = ev.v /\ errs[ret.e].t = ev.t
              /\ errs[ret.e].info \in Absent(ev.v, ev.t)
       /\ ev.op = "missing_key" => Absent(ev.v, ev.t) # {}
       /\ ev.op = "return_shell" => RecordResult
       /\ ev.op # "key_error"

(***************************************************************************)
(* C14.  Tuple check: a tuple_ descriptor gives a result only for a list   *)
(* or tuple whose length is the number of slot types, each element checked *)
(* against the type of its position; without allow_recursive the result is *)
(* a tuple, and a value that contains itself in a slot whose type is the   *)
(* descriptor itself is a mismatch; with allow_recursive that value is     *)
(* accepted and the result is a list whose element in that slot is the     *)
(* result itself.                                                          *)
(***************************************************************************)
IsTupleType(t) == Types[t].kind = "tuple_"

SelfSlots(v, t) ==
    {j \in 1..Len(Types[t].items) :
        j <= Len(ItemsOf(v)) /\ ItemsOf(v)[j] = v /\ Types[t].items[j] = t}

C14_TupleCheck ==
    LET ts == Types[ev.t].items
        made == heap[ret.r.n]
    IN  IsTupleType(ev.t)
        => /\ ev.op \in {"return_built", "return_shell"}
               => /\ IsSeq(ev.v) /\ Len(ItemsOf(ev.v)) = Len(ts)
                  /\ ret.st = "ok" /\ ret.r.h
                  /\ Len(ev.kids) = Len(ts) /\ Len(made.items) = Len(ts)
                  /\ \A j \in 1..Len(ts) :
                        /\ ev.kids[j].call
                        /\ ev.kids[j].cv = ItemsOf(ev.v)[j] /\ ev.kids[j].ct = ts[j]
                        /\ made.items[j] = ev.kids[j].r
           /\ ev.op = "return_built" => (~Types[ev.t].rec /\ made.kind = "tuple")
           /\ ev.op = "return_shell"
               => /\ Types[ev.t].rec /\ made.kind = "list"
                  /\ \A j \in SelfSlots(ev.v, ev.t) : made.items[j] = ret.r
           /\ (ev.op \in Ending
                 /\ (~IsSeq(ev.v) \/ Len(ItemsOf(ev.v)) # Len(ts)
                        \/ (~Types[ev.t].rec /\ SelfSlots(ev.v, ev.t) # {})))
               => (ret.st = "err" /\ errs[ret.e].kind = "TypeMismatch")

\* o1 = [o1, 1] against t = tuple_((t, int), allow_recursive = True)
C14_Witness ==
    /\ Done /\ value = "o1" /\ type_ = "T588" /\ ev.op = "return_shell"
    /\ ret.st = "ok" /\ heap[ret.r.n].kind = "list" /\ heap[ret.r.n].items[1] = ret.r

(***************************************************************************)
(* C15  Extra checker step order.  For every check against an Extra        *)
(* descriptor the hooks run in exactly this order, each only if configured *)
(* and only if all earlier steps passed: check_before(value) gate,         *)
(* precreate(value), convert_before(value), recursive check of the         *)
(* converted value against the base type, check(result) gate,              *)
(* convert(result), merge(shell, result); the returned object is the       *)
(* precreated shell when one exists and the converted result otherwise; a  *)
(* false gate yields a structural mismatch and no later step runs.         *)
(***************************************************************************)
StepOrder ==
    <<"check_before", "precreate", "convert_before", "recurse", "check", "convert", "merge">>

\* the steps of StepOrder that descriptor t is configured with
ConfiguredSteps(t) ==
    LET on(h) == h = "recurse" \/ h \in Types[t].hooks IN SelectSeq(StepOrder, on)

StepNames(hooks) == [j \in 1..Len(hooks) |-> hooks[j].h]

IsPrefix(a, b) == Len(a) <= Len(b) /\ a = SubSeq(b, 1, Len(a))

\* the steps called so far are the first ones of the configured order, each
\* on the argument the claim names, and none after a false gate
InStepOrder(v, t, hooks, kids, shell) ==
    LET names == StepNames(hooks)
        result == kids[1].r
    IN  /\ IsPrefix(names, ConfiguredSteps(t))
        /\ \A j \in 1..Len(hooks) :
              LET h == hooks[j].h
                  a == hooks[j].a
              IN  /\ h \in {"check_before", "precreate", "convert_before"} => a = v
                  /\ h = "recurse"
                       => /\ "convert_before" \notin Types[t].hooks => a = v
                          /\ (j > 1 /\ hooks[j - 1].h = "convert_before")
                               => a = (IF IsSeq(v) /\ ItemsOf(v) # <<>> THEN ItemsOf(v)[1] ELSE v)
                  /\ h \in {"check", "convert"} => (Len(kids) = 1 /\ a = result)
                  /\ h = "merge"
                       => /\ shell # NoRef
                          /\ "convert" \notin Types[t].hooks => a = result
                          /\ "convert" \in Types[t].hooks
                               => (a.h /\ heap[a.n].kind = "tuple" /\ heap[a.n].items = <<result>>)
                  /\ (h = "check_before" /\ j < Len(hooks)) => IsSeq(v)
                  /\ (h = "check" /\ j < Len(hooks)) => KindOf(result) = "list"

C15_ExtraStepOrder ==
    /\ \A d \in 1..Len(stack) :
          Types[stack[d].t].kind = "extra"
          => IsPrefix(StepNames(stack[d].hooks), ConfiguredSteps(stack[d].t))
    /\ Types[ev.t].kind = "extra"
       => LET names == StepNames(ev.hooks)
              last == names[Len(names)]
              failed == ret.st = "err" /\ errs[ret.e].kind = "TypeMismatch"
                        /\ errs[ret.e].v = ev.v /\ errs[ret.e].t = ev.t
          IN  /\ InStepOrder(ev.v, ev.t, ev.hooks, ev.kids, ev.shell)
              \* a gate that returned False ends the check with a mismatch
              /\ (names # <<>> /\ last = "check_before" /\ ~IsSeq(ev.v))
                    => (ev.op = "pre_check_fails" /\ failed)
              /\ (names # <<>> /\ last = "check" /\ KindOf(ev.kids[1].r) # "list")
                    => (ev.op = "gate_fails" /\ failed)
              /\ ev.op = "pre_check_fails" => (names = <<"check_before">> /\ ~IsSeq(ev.v))
              /\ ev.op = "gate_fails" => (last = "check" /\ KindOf(ev.kids[1].r) # "list")
              \* a failure of the recursion ends the check as well
              /\ ev.op = "child_raised" => (last = "recurse" /\ ret.st = "err")
              \* a check that succeeds has run every configured step
              /\ (ev.op \in Ending /\ ret.st = "ok" /\ ev.op \notin {"hit_succeeded", "hit_current"})
                    => /\ ev.op = "extra_return" /\ names = ConfiguredSteps(ev.t)
                       /\ "precreate" \in Types[ev.t].hooks
                            => /\ ev.shell # NoRef /\ ret.r = ev.shell
                               /\ heap[ret.r.n].items = <<ev.hooks[Len(ev.hooks)].a>>
                       /\ "precreate" \notin Types[ev.t].hooks
                            => /\ ev.shell = NoRef
                               /\ "convert" \notin Types[ev.t].hooks => ret.r = ev.kids[1].r
                               /\ "convert" \in Types[ev.t].hooks
                                    => (ret.r.h /\ heap[ret.r.n].kind = "tuple"
                                          /\ heap[ret.r.n].items = <<ev.kids[1].r>>)

\* my_data = ["abc", my_data] against extra((int, [str]), ...) with all six
\* hooks: the shell holds the converted result
C15_Witness ==
    /\ Done /\ ev.op = "extra_return" /\ Cardinality(Types[ev.t].hooks) = 6
    /\ StepNames(ev.hooks) = StepOrder
    /\ ret.r = ev.shell /\ heap[ret.r.n].kind = "list"

(***************************************************************************)
(* C16  Invalid descriptors are rejected immediately.  A sequence          *)
(* descriptor with two inner types raises invalid-descriptor before any    *)
(* value or element is checked against it, for every value; and the        *)
(* built-in descriptor constructors reject malformed configuration at bind *)
(* time (list_ given a non-list or more than one inner type, dict_ given a *)
(* non-dict, tuple_ given a non-sequence, extra given exactly one of       *)
(* precreate/merge, type_ given a non-type metaclass), not at first check. *)
(***************************************************************************)
TwoInner(t) == Types[t].kind = "list" /\ Len(Types[t].items) > 1

\* the malformed configurations the claim lists
MalformedConfig(c) ==
    \/ c.ctor = "list_" /\ (c.arg # "list" \/ c.n > 1)
    \/ c.ctor = "dict_" /\ c.arg # "dict"
    \/ c.ctor = "tuple_" /\ c.arg \notin {"list", "tuple"}
    \/ c.ctor = "extra" /\ Cardinality(c.hooks \cap {"precreate", "merge"}) = 1
    \/ c.ctor = "type_" /\ c.arg # "class"

BindOps == {"new", "construct", "call_bind", "bind_raises", "bind_returns"}

C16_RejectedImmediately ==
    /\ ev.op \notin BindOps
       => /\ \A d \in 1..Len(stack) :
                TwoInner(stack[d].t)
                => (d = Len(stack) /\ stack[d].pc = "enter" /\ stack[d].kids = <<>>
                      /\ stack[d].shell = NoRef)
          /\ (TwoInner(ev.t) /\ ev.op # "call")
                => /\ ev.op \in {"list_invalid", "hit_failed"}
                   /\ ret.st = "err" /\ errs[ret.e].kind = "InvalidType"
                   /\ ev.kids = <<>>
    /\ ev.op \in BindOps
       => LET c == heap[1].cfg IN
          /\ stack = <<>> /\ hist.returned = {} /\ hist.aborted = {}
          /\ (MalformedConfig(c) /\ ev.op \in {"bind_raises", "bind_returns"})
                => /\ ev.op = "bind_raises" /\ heap[1].pc = "raised"
                   /\ ret.st = "err" /\ errs[ret.e].kind = "InvalidType"
          \* the constructor returns no checker that is bound to it
          /\ (MalformedConfig(c) /\ ret.st = "ok") => heap[1].pc = "unbound"

\* extra(int, precreate = f) without merge raises in the constructor
C16_Witness ==
    /\ ev.op = "bind_raises" /\ heap[1].cfg.ctor = "extra" /\ ~heap[1].cfg.delayed
    /\ heap[1].cfg.hooks \cap {"precreate", "merge"} = {"precreate"}
    /\ ret.st = "err" /\ errs[ret.e].kind = "InvalidType"

(***************************************************************************)
(* C17  Map check.  A value matches map_(K, V) iff it is an instance of    *)
(* the configured allowed mapping kind and every key matches K and every   *)
(* value matches V; the result holds the checked key/value pairs in a      *)
(* container of the configured output class (created_type).                *)
(***************************************************************************)
IsMapType(t) == Types[t].kind = "map_"

\* every key was checked against K and every value against V, and the
\* result holds the checked pairs
MapPairs ==
    LET made == heap[ret.r.n]
        ks == KeysOf(ev.v)
        K == Types[ev.t].items[1]
        V == Types[ev.t].items[2]
    IN  /\ ret.st = "ok" /\ ret.r.h /\ ret.r = ev.shell
        /\ Len(ev.kids) = 2 * Len(ks)
        /\ Len(made.keys) = Len(ks) /\ Len(made.items) = Len(ks)
        /\ \A j \in 1..Len(ks) :
              /\ ev.kids[2 * j - 1].call /\ ev.kids[2 * j].call
              /\ ev.kids[2 * j - 1].cv = ks[j] /\ ev.kids[2 * j - 1].ct = K
              /\ ev.kids[2 * j].cv = ItemsOf(ev.v)[j] /\ ev.kids[2 * j].ct = V
              /\ made.keys[j] = ev.kids[2 * j - 1].r
              /\ made.items[j] = ev.kids[2 * j].r

MapMatches ==
    IsMapType(ev.t)
    => /\ ev.op = "return_shell" => (IsInstance(ev.v, Types[ev.t].allowed) /\ MapPairs)
       /\ ev.op = "pre_check_fails" => ~IsInstance(ev.v, Types[ev.t].allowed)
       /\ (ev.op \in Ending /\ ~IsInstance(ev.v, Types[ev.t].allowed))
            => (ret.st = "err" /\ errs[ret.e].kind = "TypeMismatch")
       /\ (ev.op \in Ending /\ ret.st = "err" /\ IsInstance(ev.v, Types[ev.t].allowed))
            => ev.op \in {"child_raised", "hit_failed", "loop_guard"}

C17_MapCheck ==
    /\ MapMatches
    /\ (IsMapType(ev.t) /\ ev.op = "return_shell")
         => heap[ret.r.n].kind = Types[ev.t].created

(***************************************************************************)
(* C18  Object checker.  Steps run in the order class check, check_before  *)
(* gate, object (re)creation, attribute check against the record           *)
(* descriptor, merge, check gate, modify; with default recreation the      *)
(* result is a fresh instance distinct from the input, and with            *)
(* recreate_object=False the result is the input instance itself.  When    *)
(* the record descriptor checks the linking attribute against the object   *)
(* descriptor itself, the attribute graph of the fresh instance has the    *)
(* same cycles as the input's (r.next.next.next is r).                     *)
(***************************************************************************)
ObjectOrder == <<"class", "check_before", "recreate", "props", "merge", "check", "modify">>

ConfiguredObjectSteps(t) ==
    LET on(h) == h \in {"class", "props"} \/ h \in Types[t].hooks
    IN  SelectSeq(ObjectOrder, on)

IsObjectType(t) == Types[t].kind = "class_"

\* o.a, the attribute that links the instances of the model
NextOf(o) ==
    IF o = NoRef \/ KindOf(o) # "obj" THEN NoRef
    ELSE LET d == DictOf(o)
             at == {j \in 1..Len(KeysOf(d)) : KeysOf(d)[j] = VRef("ka")}
         IN  IF at = {} THEN NoRef ELSE ItemsOf(d)[CHOOSE j \in at : TRUE]

RECURSIVE Hop(_, _)
Hop(o, k) == IF k = 0 THEN o ELSE Hop(NextOf(o), k - 1)

\* the record descriptor of t checks attribute a against t (or t, None)
LinkChecked(t) ==
    LET p == Types[Types[t].items[1]]
    IN  \E j \in 1..Len(p.keys) :
          /\ p.keys[j].name = "a"
          /\ \/ p.items[j] = t
             \/ \E q \in 1..Len(Types[p.items[j]].items) : Types[p.items[j]].items[q] = t

ObjectSteps ==
    /\ \A d \in 1..Len(stack) :
          IsObjectType(stack[d].t)
          => IsPrefix(StepNames(stack[d].hooks), ConfiguredObjectSteps(stack[d].t))
    /\ IsObjectType(ev.t)
       => LET names == StepNames(ev.hooks)
              failed == ret.st = "err" /\ errs[ret.e].kind = "TypeMismatch"
                        /\ errs[ret.e].v = ev.v /\ errs[ret.e].t = ev.t
          IN  /\ IsPrefix(names, ConfiguredObjectSteps(ev.t))
              /\ \A j \in 1..Len(ev.hooks) :
                    LET h == ev.hooks[j].h
                        a == ev.hooks[j].a
                    IN  /\ h \in {"class", "check_before", "recreate"} => a = ev.v
                        /\ h = "props" => a = ItemsOf(ev.v)[1]
                        /\ h = "merge" => (Len(ev.kids) = 1 /\ a = ev.kids[1].r)
                        /\ h \in {"check", "modify"} => a = ev.shell
                        /\ j > 1 => KindOf(ev.v) = "obj"
              /\ ev.op = "pre_check_fails"
                    => /\ failed
                       /\ \/ names = <<"class">> /\ KindOf(ev.v) # "obj"
                          \/ names = <<"class", "check_before">> /\ KeysOf(ItemsOf(ev.v)[1]) = <<>>
              /\ ev.op = "object_gate_fails"
                    => (failed /\ names[Len(names)] = "check")
              /\ ev.op = "child_raised" => (names[Len(names)] = "props" /\ ret.st = "err")
              /\ ev.op = "object_return"
                    => /\ names = ConfiguredObjectSteps(ev.t)
                       /\ ret.st = "ok" /\ ret.r = ev.shell /\ KindOf(ret.r) = "obj"
                       /\ "recreate" \in Types[ev.t].hooks => (ret.r.h /\ ret.r # ev.v)
                       /\ "recreate" \notin Types[ev.t].hooks => ret.r = ev.v
              /\ (ev.op \in Ending /\ ret.st = "ok" /\ ev.op \notin {"hit_succeeded", "hit_current"})
                    => ev.op = "object_return"

\* the result of the top-level call has the cycles of the value
SameCycles ==
    \A k \in 1..NestDepth :
        /\ (Hop(VRef(value), k) = VRef(value)) <=> (Hop(ret.r, k) = ret.r)
        /\ (Hop(ret.r, k) # NoRef /\ KindOf(Hop(ret.r, k)) = "obj") => Hop(ret.r, k).h

Recreated ==
    /\ Done /\ ret.st = "ok" /\ IsObjectType(type_) /\ "recreate" \in Types[type_].hooks

C18_ObjectChecker ==
    /\ ObjectSteps
    /\ (Recreated /\ LinkChecked(type_)) => SameCycles

\* the claim as stated: the cycles are kept by every object descriptor
C18_CyclesKeptByAnyDescriptor == Recreated => SameCycles

\* c1.a = c2, c2.a = c3, c3.a = c1 against single = class_(C, {"a": (single, None)})
C18_Witness ==
    /\ Recreated /\ value = "c1" /\ type_ = "single" /\ ev.op = "object_return"
    /\ ret.r.h /\ Hop(ret.r, 3) = ret.r /\ Hop(ret.r, 1) # ret.r /\ Hop(ret.r, 1).h

(***************************************************************************)
(* C20  check_type never modifies its input.  After any check (successful  *)
(* or failed) every object of the input value graph has the same contents  *)
(* as before the call, and the descriptor graph is likewise unchanged; all *)
(* construction happens in freshly created result objects.  (The           *)
(* descriptors are the constant Types: no step of the check writes them.)  *)
(***************************************************************************)
C20_InputNotModified == input = Original

(***************************************************************************)
(* C19  Idempotence on acyclic inputs.  For any acyclic value v and         *)
(* descriptor d built from primitive, sequence, record, tuple_ and map_    *)
(* descriptors with the default input class (no alternation, no Extra or   *)
(* object checker) such that check_type(v, d) succeeds with result r,      *)
(* check_type(r, d) also succeeds and its result is equal to r.            *)
(***************************************************************************)
ChildIds(S) ==
    UNION {{Values[x].items[j] : j \in 1..Len(Values[x].items)}
           \cup {Values[x].keys[j] : j \in 1..Len(Values[x].keys)} : x \in S}

RECURSIVE Below(_)
Below(S) == IF ChildIds(S) \subseteq S THEN S ELSE Below(S \cup ChildIds(S))

\* no object of the graph of value id is reachable from itself
Acyclic(id) == \A x \in Below({id}) : x \notin Below(ChildIds({x}))

TypesOf(S) == UNION {{Types[t].items[j] : j \in 1..Len(Types[t].items)} : t \in S}

RECURSIVE TypesBelow(_)
TypesBelow(S) == IF TypesOf(S) \subseteq S THEN S ELSE TypesBelow(S \cup TypesOf(S))

Plain(t) ==
    \A q \in TypesBelow({t}) :
        /\ ~IsAlternation(q)
        /\ Types[q].kind \notin {"extra", "class_"}
        /\ Types[q].kind = "map_" => Types[q].allowed = "dict"

EqualDepth == 2 * NestDepth + MaxLen

\* a == b in Python, for objects whose graphs are acyclic
RECURSIVE Equal(_, _, _)
Equal(a, b, fuel) ==
    LET ka == KindOf(a)
        kb == KindOf(b)
        mapping == {"dict", "OrderedDict"}
    IN  IF a = b THEN TRUE
        ELSE IF fuel = 0 THEN FALSE
        ELSE IF ka \in {"int", "bool"} /\ kb \in {"int", "bool"}
        THEN {a.v, b.v} \subseteq {"one", "true"}
        ELSE IF ka \in {"list", "tuple"} /\ ka = kb
        THEN /\ Len(ItemsOf(a)) = Len(ItemsOf(b))
             /\ \A j \in 1..Len(ItemsOf(a)) : Equal(ItemsOf(a)[j], ItemsOf(b)[j], fuel - 1)
        ELSE IF ka \in mapping /\ kb \in mapping
        THEN /\ Len(KeysOf(a)) = Len(KeysOf(b))
             /\ \A j \in 1..Len(KeysOf(a)) :
                   \E k \in 1..Len(KeysOf(b)) :
                       /\ Equal(KeysOf(a)[j], KeysOf(b)[k], fuel - 1)
                       /\ Equal(ItemsOf(a)[j], ItemsOf(b)[k], fuel - 1)
        ELSE FALSE

\* the second call has ended
Twice == Done /\ hist.first # NoRef

Repeated == hist.before.st # "none"

C21_SessionIsolation ==
    /\ ev.op = "call" =>
          current_check = <<>> /\ failed_check = <<>> /\ sess = <<NewSession(<<>>)>>
    /\ (Done /\ Repeated) => Outcome = hist.before

(***************************************************************************)
(* C22  Failure memoisation.  Once the check of a pair has raised, every    *)
(* later lookup of the pair in the session finds it in the failed table    *)
(* and raises the very error object the pair's check raised (the last one, *)
(* if nested checks of the pair raised more than once), at once: the       *)
(* activation has run no checker.                                          *)
(***************************************************************************)
C22_FailedLookup ==
    /\ (Entered /\ PairOf(Top) \in DOMAIN hist.raised) => Found = "failed"
    /\ ev.op = "hit_failed" =>
          /\ <<ev.v, ev.t>> \in DOMAIN hist.raised
          /\ ev.e = hist.raised[<<ev.v, ev.t>>]
          /\ ret = Err(ev.e)
          /\ ev.hooks = <<>> /\ ev.kids = <<>> /\ ev.log = <<>> /\ ev.shell = NoRef

\* a pair below the top that raised a mismatch is looked up again and
\* raises the same error
C22_Witness ==
    /\ ev.op = "hit_failed" /\ ev.depth > 1
    /\ hist.raised[<<ev.v, ev.t>>] = ev.e
    /\ ret = Err(ev.e) /\ errs[ev.e].kind = "TypeMismatch"

(***************************************************************************)
(* C23  Propagation.  An error raised by the check of an element leaves the *)
(* enclosing sequence, record, tuple or map check as the same error        *)
(* object, and no error object is ever changed: the error the caller       *)
(* receives carries the innermost offending value and descriptor.          *)
(***************************************************************************)
\* the element whose check raised in the step ev
RaisingStep == FinalSteps(ev.v, ev.t, ev.shell)[Len(ev.kids) + 1]

C23_Propagation ==
    /\ [](ev.op = "child_raised" =>
            /\ ret = Err(ev.e)
            /\ <<RaisingStep.cv, RaisingStep.ct>> \in DOMAIN hist.raised
            /\ hist.raised[<<RaisingStep.cv, RaisingStep.ct>>] = ev.e
            /\ hist.raised[<<ev.v, ev.t>>] = ev.e)
    /\ [][\A e \in DOMAIN errs : e \in DOMAIN errs' /\ errs'[e] = errs[e]]_vars

\* w = [[1], 'abc'] against [[int]]: the caller receives 'abc' against int,
\* raised two levels below
C23_Witness ==
    /\ Done /\ value = "w" /\ type_ = "N2" /\ ev.op = "child_raised"
    /\ ret.st = "err" /\ errs[ret.e] = TypeMismatchException(VRef("abc"), "int", "")
    /\ hist.raised[<<VRef("abc"), "int">>] = ret.e

(***************************************************************************)
(* C24: the errors that leave a top-level check.                           *)
(***************************************************************************)
\* C24: a top-level check ends with a returned value, with a
\* TypeMismatchException or with an InvalidTypeException, and with no error
\* of any other kind, also for dict descriptors and dict values whose keys
\* are no strings.
C24_ThreeOutcomes ==
    (Done /\ ret.st = "err") => errs[ret.e].kind \in {"TypeMismatch", "InvalidType"}

(***************************************************************************)
(* C25: the order of the steps of a function decorated with checked.       *)
(***************************************************************************)
Annotated(fn) == {j \in 1..Len(fn.params) : fn.params[j] # ""}
\* the check_type call made for parameter j is the Rank-th one
Rank(fn, j) == Cardinality({i \in Annotated(fn) : i <= j})
\* call_args after the loop, read from the log of the check_type calls
Passed(c, fn) ==
    [j \in 1..Len(fn.params) |->
        IF j \in Annotated(fn) THEN c.checks[Rank(fn, j)].ret.r ELSE c.orig[j]]
ArgumentFailed(c, fn) ==
    \E i \in 1..Len(c.checks) : i <= Cardinality(Annotated(fn)) /\ c.checks[i].ret.st = "err"

\* C25: the decorated function (plain or coroutine) is called at most once,
\* and only when check_type has been called for every annotated argument,
\* with its annotation, and has returned; it is called with the results of
\* these calls in place of the arguments (and with the arguments that have
\* no annotation as they are).  When the check of an annotated argument
\* raises, that error is how the call ends and the function is not called.
\* With a 'return' annotation what the function gave back is passed to
\* check_type after the call, and the result of that check is returned (or
\* its error raised); without one what the function gave back is returned.
C25_DecoratorOrdering ==
    hist.call.f # "" =>
        \E c \in {hist.call} : \E fn \in {Functions[hist.call.f]} :
            /\ c.calls <= 1
            /\ c.calls = 1 =>
                  /\ Len(c.checks) >= Cardinality(Annotated(fn))
                  /\ \A j \in Annotated(fn) :
                        /\ c.checks[Rank(fn, j)].v = c.orig[j]
                        /\ c.checks[Rank(fn, j)].t = fn.params[j]
                        /\ c.checks[Rank(fn, j)].ret.st = "ok"
                  /\ c.got = Received(fn, Passed(c, fn))
                  /\ c.pc # "called" => c.given = c.got[fn.gives]
            /\ ArgumentFailed(c, fn) =>
                  /\ c.calls = 0 /\ c.got = <<>> /\ c.pc = "raised"
                  /\ c.out = c.checks[Len(c.checks)].ret /\ c.out.st = "err"
            /\ c.pc = "returned" =>
                  /\ c.calls = 1 /\ c.out.st = "ok"
                  /\ IF fn.returns = ""
                     THEN c.out.r = c.given /\ Len(c.checks) = Cardinality(Annotated(fn))
                     ELSE /\ Len(c.checks) = Cardinality(Annotated(fn)) + 1
                          /\ c.checks[Len(c.checks)] = [v |-> c.given, t |-> fn.returns, ret |-> c.out]
            /\ (c.pc = "raised" /\ c.calls = 1) =>
                  /\ fn.returns # "" /\ c.out.st = "err"
                  /\ c.checks[Len(c.checks)] = [v |-> c.given, t |-> fn.returns, ret |-> c.out]

\* g(a: [int]) -> [int] called with the int 1: it is called with the list
\* made for 1, and the list made by the check of its result is returned
C25_Witness ==
    /\ hist.call.f = "g" /\ hist.call.orig = <<VRef("one")>> /\ hist.call.pc = "returned"
    /\ hist.call.calls = 1 /\ Len(hist.call.got) = 1 /\ hist.call.got[1].h
    /\ ItemsOf(hist.call.got[1]) = <<VRef("one")>>
    /\ hist.call.out.r.h /\ hist.call.out.r # hist.call.got[1]

(***************************************************************************)
(* C26: no shell of a failed check is left in a result.                    *)
(***************************************************************************)
\* the objects that can be reached from the objects of S, through the
\* objects made by the call and through the objects of the input
Through(S) ==
    S \cup UNION {{ItemsOf(r)[k] : k \in 1..Len(ItemsOf(r))}
                    \cup {KeysOf(r)[k] : k \in 1..Len(KeysOf(r))} : r \in S}
RECURSIVE ReachAll(_)
ReachAll(S) == IF Through(S) = S THEN S ELSE ReachAll(Through(S))
\* the shells made by pre_check_type for a pair whose check has raised
AbortedShells == {x \in hist.aborted : x.h}

\* C26: a shell made for a pair whose check raised cannot be reached from
\* the value a top-level call returns, and at no time from a result stored
\* in a succeeded table; every shell that can be reached from the returned
\* value is the result of a pair whose check returned.
C26_NoDanglingShell ==
    /\ (Done /\ ret.st = "ok") =>
          /\ ReachAll({ret.r}) \cap AbortedShells = {}
          /\ \A x \in ReachAll({ret.r}) :
                (x.h /\ x \in hist.aborted \cup {e[3] : e \in hist.ended})
                    => \E e \in hist.ended : e[3] = x
    /\ \A s \in 1..Len(sess) : \A p \in DOMAIN sess[s].succ :
          ReachAll({sess[s].succ[p]}) \cap AbortedShells = {}

\* the claim holds as long as the call has not changed an object of the
\* input (see C20): a shell of a raised pair is reached only through an
\* attribute that a class_ checker bound with recreate_object = False has
\* written into an object of the input
C26_UnlessInputModified == (input = Original) => C26_NoDanglingShell

(***************************************************************************)
(* C27: which object a composite check returns, hands out and stores.      *)
(***************************************************************************)
\* the second phase of the activation on top ends and its check returns
SecondPhaseReturns == FinalReturnBuilt \/ FinalReturnShell \/ ObjectReturn \/ ExtraReturn

\* C27: when the second phase of a pair that has a shell ends, the object
\* returned for the pair is the shell, which is the object registered for
\* the pair as in progress (and so handed to every nested lookup of the
\* pair) and the object stored for the pair in the succeeded table, also
\* when final_check_type has made another object (the converted result of
\* an Extra checker).  When the second phase of a pair that has no shell
\* ends, the object returned is the one final_check_type made, it is no
\* shell of any pair, and nothing is stored for the pair in the succeeded
\* table.
C27_ShellIdentity ==
    /\ [][SecondPhaseReturns =>
            IF Top.shell # NoRef
            THEN /\ ret' = Ok(Top.shell)
                 /\ PairOf(Top) \in DOMAIN current_check
                 /\ current_check[PairOf(Top)] = Top.shell
                 /\ PairOf(Top) \in DOMAIN sess'[Top.s].succ
                 /\ sess'[Top.s].succ[PairOf(Top)] = Top.shell
            ELSE /\ ret'.st = "ok"
                 /\ ret'.r = IF Types[Top.t].kind # "extra" THEN HRef(Len(heap) + 1)
                             ELSE IF "convert" \in Types[Top.t].hooks THEN HRef(Len(heap) + 1)
                             ELSE Top.acc[1]
                 /\ Types[Top.t].kind # "extra" => heap'[Len(heap) + 1] = Build(Top.v, Top.t, Top.acc)
                 /\ ret'.r \notin hist.aborted \cup {current_check[p] : p \in DOMAIN current_check}
                 /\ PairOf(Top) \notin DOMAIN current_check
                 /\ PairOf(Top) \notin DOMAIN sess'[Top.s].succ]_vars
    /\ [](ev.op = "hit_current" =>
            \E i \in 1..Len(stack) : PairOf(stack[i]) = <<ev.v, ev.t>> /\ stack[i].shell = ret.r)

\* an Extra checker with precreate and convert has returned its shell, and
\* the shell is not the object that convert made
C27_Witness ==
    /\ ev.op = "extra_return" /\ ev.shell # NoRef /\ ret = Ok(ev.shell)
    /\ "convert" \in Types[ev.t].hooks
    /\ <<ev.v, ev.t>> \in DOMAIN sess[Len(sess)].succ
    /\ sess[Len(sess)].succ[<<ev.v, ev.t>>] = ev.shell
    /\ Len(heap) > ev.shell.n

(***************************************************************************)
(* C28: current_check and the loop guards follow the call stack.           *)
(***************************************************************************)
\* the pairs whose second phase is on the call stack, with a shell, and
\* without one in session n
WithShell == {PairOf(stack[i]) : i \in {j \in 1..Len(stack) :
                  stack[j].pc = "final" /\ stack[j].shell # NoRef}}
Guarded(n) == {PairOf(stack[i]) : i \in {j \in 1..Len(stack) :
                  stack[j].pc = "final" /\ stack[j].shell = NoRef /\ stack[j].s = n}}

\* C28: at every point current_check holds exactly the pairs with a shell
\* whose second phase is on the call stack, and every list_loop holds
\* exactly the pairs without a shell whose second phase is on the call
\* stack and runs with it; both are empty when the top-level call has
\* returned or raised.
C28_StackDiscipline ==
    /\ DOMAIN current_check = WithShell
    /\ \A n \in 1..Len(sess) : sess[n].loop = Guarded(n)
    /\ Done => (current_check = <<>> /\ Len(sess) = 1 /\ sess[1].loop = {})

\* the call has raised after a pair with a shell and, nested in it, a pair
\* without one were both in their second phase
C28_Witness ==
    /\ Done /\ ret.st = "err" /\ hist.aborted # {} /\ hist.cut
    /\ current_check = <<>> /\ sess[1].loop = {}

(***************************************************************************)
(* C29: a pair is in at most one of the three tables.                      *)
(***************************************************************************)
\* C29: at every point no pair is both in failed_check and in
\* current_check, nor both in failed_check and in a succeeded table, nor
\* both in current_check and in a succeeded table (the succeeded table the
\* running activation reads, and every one that an enclosing activation
\* will go on with).
C29_TablesExclusive ==
    /\ DOMAIN failed_check \cap DOMAIN current_check = {}
    /\ \A n \in 1..Len(sess) :
          /\ DOMAIN failed_check \cap DOMAIN sess[n].succ = {}
          /\ DOMAIN current_check \cap DOMAIN sess[n].succ = {}

\* the three tables all hold pairs: one value has failed against one
\* descriptor, whose checker gave it a shell, and a result is stored for it
\* against another, while a pair is in progress
C29_Witness ==
    \E p \in DOMAIN failed_check : \E q \in DOMAIN current_check :
    \E r \in DOMAIN sess[Len(sess)].succ :
        p[1] = r[1] /\ HasShell(p[1], p[2])

(***************************************************************************)
(* The single-file engine, src/pychecktype.py, _check_type_inner (lines    *)
(* 286-429).  Its lookup, primitive rules, alternation, the error for an   *)
(* object that is no descriptor, and its list and dict branches once the   *)
(* result object is registered in current_check, are the statements of the *)
(* two-phase engine; what differs is below.  It knows no checker objects.  *)
(***************************************************************************)
EmptyLiteral(t) == Types[t].kind \in {"list", "dict"} /\ Types[t].items = <<>>

\* the dict branch before the result is registered, lines 379-393: the
\* value is no dict, or (for a descriptor that is not {}) optional_keys is
\* computed and the required keys are looked for
DictProblem(v, t) ==
    /\ Types[t].kind = "dict"
    /\ IF ~IsInstance(v, "dict") THEN TRUE
       ELSE IF EmptyLiteral(t) THEN FALSE
       ELSE IF NonStrKey(t) THEN TRUE
       ELSE MissingKeys(v, t) # {}

\* an engine that answers [] and {} with the value itself
SingleEmptyAliased ==
    /\ Miss /\ EmptyLiteral(Top.t)
    /\ Types[Top.t].kind = "dict" => IsInstance(Top.v, "dict")
    /\ Return("return_built", Top.v, sess, heap)

\* lines 348-353 and 381-382: [] gives list(value) or [value], {} gives
\* dict(value); the new object is not registered in current_check
SingleEmpty ==
    /\ Miss /\ EmptyLiteral(Top.t)
    /\ Types[Top.t].kind = "dict" => IsInstance(Top.v, "dict")
    /\ Return("return_built", HRef(Len(heap) + 1), sess,
              Append(heap, IF Types[Top.t].kind = "dict"
                           THEN [kind |-> "dict", keys |-> KeysOf(Top.v), items |-> ItemsOf(Top.v)]
                           ELSE IF IsSeq(Top.v)
                           THEN [kind |-> "list", keys |-> <<>>, items |-> ItemsOf(Top.v)]
                           ELSE [kind |-> "list", keys |-> <<>>, items |-> <<Top.v>>]))

\* lines 379-380: a value that is no dict raises TypeMismatchException
\* without info; lines 384-393: k.startswith on a key that is no str, or a
\* required key that the value does not have
SingleDict ==
    /\ Miss /\ DictProblem(Top.v, Top.t)
    /\ IF ~IsInstance(Top.v, "dict")
       THEN RaiseNew("not_a_dict", TypeMismatchException(Top.v, Top.t, ""))
       ELSE IF NonStrKey(Top.t)
       THEN RaiseNew("attribute_error",
                     AttributeError("'int' object has no attribute 'startswith'"))
       ELSE RaiseNew("missing_key",
                     TypeMismatchException(Top.v, Top.t,
                         Types[Top.t].keys[CHOOSE k \in MissingKeys(Top.v, Top.t) :
                             \A j \in MissingKeys(Top.v, Top.t) : k <= j].name))

SingleNext ==
    \/ HitSucceeded \/ HitFailed \/ HitCurrent
    \/ CheckPrimitive \/ Unrecognized
    \/ AltEnter \/ AltTry \/ AltExhausted
    \/ AltChildOk \/ AltChildMismatch \/ AltChildError
    \/ ListInvalid
    \/ SingleEmpty \/ SingleDict
    \/ (stack # <<>> /\ ~EmptyLiteral(Top.t) /\ ~DictProblem(Top.v, Top.t)
            /\ (LoopGuard \/ PreCheckNone \/ PreCheckShell))
    \/ FinalRecurse \/ FinalCopy \/ FinalKeyError
    \/ FinalChildOk \/ FinalChildRaised
    \/ FinalReturnBuilt \/ FinalReturnShell

\* the caller passes the same arguments to check_type of the single-file
\* module (line 272), for a descriptor without checker objects; the result
\* and the outcome of the call of the two-phase engine are kept
CallSingle ==
    /\ Done /\ ~hist.single
    /\ \A q \in TypesBelow({type_}) :
          Types[q].kind \notin {"list_", "tuple_", "map_", "extra", "class_"}
    /\ SecondCall(VRef(value), type_,
                  [hist EXCEPT !.single = TRUE, !.before = Outcome, !.first = ret.r])

BothSpec ==
    Init /\ [][(~hist.single /\ Next) \/ CallSingle \/ (hist.single /\ SingleNext)]_vars

(***************************************************************************)
(* C30: the single-file engine and the two-phase engine, called with the   *)
(* same arguments.                                                         *)
(***************************************************************************)
\* a descriptor built only from primitives, alternations, lists and dicts
BuiltIn(t) ==
    \A q \in TypesBelow({t}) :
        Types[q].kind \in {"none", "int", "str", "bool", "object", "listcls",
                           "tuple", "list", "dict"}

\* the index paths into a result: at most NestDepth steps, each to one of
\* the first MaxLen elements (of a dict: values)
Paths == UNION {[1..k -> 1..MaxLen] : k \in 0..NestDepth}

\* the object at path p below r; NoRef when there is none.  An object of
\* the input is not entered.
RECURSIVE Walk(_, _)
Walk(r, p) ==
    IF p = <<>> THEN r
    ELSE IF ~r.h THEN NoRef
    ELSE IF Head(p) > Len(heap[r.n].items) THEN NoRef
    ELSE Walk(heap[r.n].items[Head(p)], Tail(p))

\* what is seen of an object without its identity: an object of the input
\* is itself, a new object is its class, its keys and its length
Shape(x) ==
    [h |-> x.h, v |-> x.v,
     kind |-> IF x.h THEN heap[x.n].kind ELSE "",
     keys |-> IF x.h THEN heap[x.n].keys ELSE <<>>,
     len |-> IF x.h THEN Len(heap[x.n].items) ELSE 0]

SameContents(a, b) == \A p \in Paths : Shape(Walk(a, p)) = Shape(Walk(b, p))

\* how the two calls ended: both returned, or both raised an error of the
\* same class
SameOutcome == Outcome.st = hist.before.st /\ Outcome.kind = hist.before.kind

Compared == Done /\ hist.single /\ BuiltIn(type_)

\* C30, as claimed: for every value and every descriptor built only from
\* primitives, alternations, lists and dicts, the two engines both return
\* or both raise an error of the same class, and when they return, the two
\* results have equal contents and the same identity sharing: two paths
\* lead to one object in one result iff they do in the other.
C30_EnginesEquivalent ==
    Compared =>
        /\ SameOutcome
        /\ ret.st = "ok" =>
              /\ SameContents(hist.first, ret.r)
              /\ \A p, q \in {x \in Paths : Walk(ret.r, x) # NoRef} :
                    (Walk(hist.first, p) = Walk(hist.first, q))
                        <=> (Walk(ret.r, p) = Walk(ret.r, q))

\* C30, amended: the two engines both return or both raise an error of the
\* same class, and when they return, the two results have equal contents,
\* two paths that lead to one object in the result of the single-file
\* engine lead to one object in the result of the two-phase engine, and two
\* paths that lead to one object in the result of the two-phase engine only
\* lead to a result made for an empty list or an empty dict descriptor
\* (which the two-phase engine stores and shares, and the single-file
\* engine makes anew each time).
C30_EnginesEquivalentButEmpty ==
    Compared =>
        /\ SameOutcome
        /\ ret.st = "ok" =>
              /\ SameContents(hist.first, ret.r)
              /\ \A p, q \in {x \in Paths : Walk(ret.r, x) # NoRef} :
                    /\ (Walk(ret.r, p) = Walk(ret.r, q))
                          => (Walk(hist.first, p) = Walk(hist.first, q))
                    /\ (Walk(hist.first, p) = Walk(hist.first, q)
                            /\ Walk(ret.r, p) # Walk(ret.r, q))
                          => \E e \in hist.ended :
                                e[3] = Walk(hist.first, p) /\ EmptyLiteral(e[2])

\* pair = [o1, o1] against [[]]: r[0] is r[1] in the result of the
\* two-phase engine and not in the result of the single-file engine
C30_Witness ==
    /\ Compared /\ value = "pair" /\ type_ = "NL" /\ ret.st = "ok"
    /\ Walk(hist.first, <<1>>).h /\ Walk(hist.first, <<1>>) = Walk(hist.first, <<2>>)
    /\ Walk(ret.r, <<1>>).h /\ Walk(ret.r, <<2>>).h
    /\ Walk(ret.r, <<1>>) # Walk(ret.r, <<2>>)
    /\ SameContents(hist.first, ret.r)

====
